---------------------------- MODULE Spec2Model ----------------------------
(***************************************************************************)
(* A model of the PQ-tree engine of OGDF's Booth-Lueker planar embedder    *)
(* (EmbedPQTree) as a state machine.                                       *)
(*                                                                         *)
(* The tree is a heap of nodes: `nodes' maps a node address to the fields  *)
(* of PQNode/PQInternalNode/PQLeaf/EmbedIndicator.  Address 0 is nullptr.  *)
(* Every operation of EmbedPQTree.cpp is an operator on a tree value       *)
(*   [h, root, pr, pn, id, fr, bad]                                        *)
(* (heap, m_root, m_pertinentRoot, m_pertinentNodes, next address,         *)
(* freed addresses, failed assertions) that follows the C++ statement by   *)
(* statement; loops are RECURSIVE operators.  The operations inherited     *)
(* from PQTree<T,X,Y> are modelled from the engine's specification.        *)
(***************************************************************************)
EXTENDS Integers, Sequences, FiniteSets, TLC

Null == 0

(***************************************************************************)
(* Bounds of the model.                                                    *)
(***************************************************************************)
MaxInit == 3        \* largest key list handed to Initialize
MaxNew == 1         \* largest key list handed to ReplaceRoot
MaxRounds == 1      \* reduction rounds the driver runs after its script

VARIABLES
    nodes,                  \* the heap: address -> node fields
    m_root,                 \* PQTree::m_root
    m_pertinentRoot,        \* PQTree::m_pertinentRoot
    m_pertinentNodes,       \* PQTree::m_pertinentNodes (a list of addresses)
    m_identificationNumber, \* next node address / identification number
    freed,                  \* addresses whose node has been deleted
    failedAsserts,          \* OGDF_ASSERTs that did not hold so far
    phase,                  \* position of the driver
    out,                    \* what the last operation returned to the driver
    pre,                    \* the tree as it was when the last Reduction began
    script,                 \* inputs the driver still replays
    rounds,                 \* free reduction rounds left
    hg,                     \* the Hypergraph object (Hypergraph.cpp)
    hgOut,                  \* what the last Hypergraph operation returned
    finder,                 \* a NearestRectangleFinder and its last query
    planRep                 \* the PlanRepExpansion object and its last call

\* The variables of the programs that run beside the PQ-tree engine
hgVars == <<hg, hgOut>>
otherVars == <<hgVars, finder, planRep>>

vars == <<nodes, m_root, m_pertinentRoot, m_pertinentNodes,
          m_identificationNumber, freed, failedAsserts, phase, out, pre,
          script, rounds, otherVars>>

(***************************************************************************)
(* Sequences helpers.                                                      *)
(***************************************************************************)
Range(s) == {s[i] : i \in 1..Len(s)}

Rev(s) == [i \in 1..Len(s) |-> s[Len(s) + 1 - i]]

IsInjective(s) == \A i, j \in 1..Len(s) : s[i] = s[j] => i = j

\* SListPure::pushFront / List::pushFront
PushFront(s, x) == <<x>> \o s

(***************************************************************************)
(* Nodes.  An EmbedIndicator answers type() with Leaf and status() with    *)
(* Indicator whatever is stored, and ignores the setters.                  *)
(***************************************************************************)
NewNode(type, status) ==
    [type |-> type, status |-> status, parent |-> Null,
     sibLeft |-> Null, sibRight |-> Null,
     referenceChild |-> Null, referenceParent |-> Null,
     leftEndmost |-> Null, rightEndmost |-> Null,
     childCount |-> 0, pertChildCount |-> 0, pertLeafCount |-> 0,
     fullChildren |-> <<>>, partialChildren |-> <<>>,
     key |-> 0, ind |-> FALSE, v |-> 0, changeDir |-> FALSE]

NewLeaf(key) == [NewNode("Leaf", "Empty") EXCEPT !.key = key]

\* IndInfo::IndInfo(node w): v = w, changeDir = false
IndInfo(w) ==
    [NewNode("Leaf", "Indicator") EXCEPT !.ind = TRUE, !.v = w,
                                         !.changeDir = FALSE]

Alloc(T, rec) ==
    [T EXCEPT !.h = [a \in DOMAIN T.h \cup {T.id} |->
                        IF a = T.id THEN rec ELSE T.h[a]],
              !.id = T.id + 1]

Status(h, x) == IF h[x].ind THEN "Indicator" ELSE h[x].status

Type(h, x) == IF h[x].ind THEN "Leaf" ELSE h[x].type

SetStatus(h, x, s) == IF h[x].ind THEN h ELSE [h EXCEPT ![x].status = s]

\* PQNode::getNextSib(other)
getNextSib(h, x, other) ==
    IF h[x].sibLeft # other THEN h[x].sibLeft
    ELSE IF h[x].sibRight # other THEN h[x].sibRight
    ELSE Null

\* PQNode::getSib(side)
getSib(h, x, side) == IF side = "Left" THEN h[x].sibLeft ELSE h[x].sibRight

\* PQNode::changeSiblings(oldSib, newSib)
changeSiblings(h, x, oldSib, newSib) ==
    IF h[x].sibLeft = oldSib THEN [h EXCEPT ![x].sibLeft = newSib]
    ELSE IF h[x].sibRight = oldSib THEN [h EXCEPT ![x].sibRight = newSib]
    ELSE h

\* PQNode::putSibling(newSib, preference)
putSibling(h, x, newSib, preference) ==
    IF preference = "Left"
    THEN IF h[x].sibLeft = Null THEN [h EXCEPT ![x].sibLeft = newSib]
         ELSE [h EXCEPT ![x].sibRight = newSib]
    ELSE IF h[x].sibRight = Null THEN [h EXCEPT ![x].sibRight = newSib]
         ELSE [h EXCEPT ![x].sibLeft = newSib]

\* PQNode::endmostChild()
endmostChild(h, x) == h[x].sibLeft = Null \/ h[x].sibRight = Null

\* PQNode::changeEndmost(oldEnd, newEnd)
changeEndmost(h, p, oldEnd, newEnd) ==
    IF h[p].leftEndmost = oldEnd THEN [h EXCEPT ![p].leftEndmost = newEnd]
    ELSE IF h[p].rightEndmost = oldEnd THEN [h EXCEPT ![p].rightEndmost = newEnd]
    ELSE h

\* PQTree::destroyNode: the node is only marked, the sweep frees it
destroyNode(h, x) == SetStatus(h, x, "ToBeDeleted")


(***************************************************************************)
(* Pointer surgery of the base class PQTree.                               *)
(***************************************************************************)
\* PQTree::removeChildFromSiblings, first part: a reference child hands the
\* reference of the P-node to its right sibling, unless it is its own
\* sibling; an endmost child hands the end of the Q-node to its one sibling
unlinkFromParent(h, x) ==
    IF h[x].referenceParent # Null
    THEN [(IF h[x].sibRight # Null
           THEN [h EXCEPT ![h[x].sibRight].referenceParent = h[x].referenceParent]
           ELSE h)
             EXCEPT ![h[x].referenceParent].referenceChild =
                        IF h[x].sibRight = x THEN Null ELSE h[x].sibRight,
                    ![x].referenceParent = Null]
    ELSE IF endmostChild(h, x) /\ h[x].parent # Null
    THEN IF getNextSib(h, x, Null) # Null
         THEN [changeEndmost(h, h[x].parent, x, getNextSib(h, x, Null))
                  EXCEPT ![getNextSib(h, x, Null)].parent = h[x].parent]
         ELSE changeEndmost(h, h[x].parent, x, Null)
    ELSE h

\* PQTree::removeChildFromSiblings, second part: the two siblings are
\* linked to each other
bridgeRight(h, x, r) ==
    IF r # Null /\ r # x
    THEN IF h[r].sibLeft = x THEN [h EXCEPT ![r].sibLeft = h[x].sibLeft]
         ELSE [h EXCEPT ![r].sibRight = h[x].sibLeft]
    ELSE h

bridgeLeft(h, x, l) ==
    IF l # Null /\ l # x
    THEN IF h[l].sibRight = x THEN [h EXCEPT ![l].sibRight = h[x].sibRight]
         ELSE [h EXCEPT ![l].sibLeft = h[x].sibRight]
    ELSE h

unlinkFromSiblings(h, x) ==
    [bridgeLeft(bridgeRight(h, x, h[x].sibRight), x, h[x].sibLeft)
        EXCEPT ![x].sibRight = Null, ![x].sibLeft = Null]

\* PQTree::removeChildFromSiblings(nodePtr)
removeChildFromSiblings(h, x) == unlinkFromSiblings(unlinkFromParent(h, x), x)

\* PQTree::exchangeNodes, first part: the new node takes the reference or
\* the end of the parent
takeParentLink(h, old, new) ==
    IF h[old].referenceParent # Null
    THEN [h EXCEPT ![h[old].referenceParent].referenceChild = new,
                   ![new].referenceParent = h[old].referenceParent,
                   ![old].referenceParent = Null]
    ELSE IF endmostChild(h, old) /\ h[old].parent # Null
    THEN changeEndmost(h, h[old].parent, old, new)
    ELSE h

\* PQTree::exchangeNodes, second part: a node that is its own sibling
takeRing(h, old, new) ==
    IF h[old].sibLeft = old /\ h[old].sibRight = old
    THEN [h EXCEPT ![old].sibLeft = Null, ![old].sibRight = Null,
                   ![new].sibLeft = new, ![new].sibRight = new]
    ELSE h

\* PQTree::exchangeNodes, third part: the new node takes the two siblings
takeLeft(h, old, new) ==
    IF h[old].sibLeft # Null
    THEN [changeSiblings(h, h[old].sibLeft, old, new)
              EXCEPT ![new].sibLeft = h[old].sibLeft, ![old].sibLeft = Null]
    ELSE h

takeRight(h, old, new) ==
    IF h[old].sibRight # Null
    THEN [changeSiblings(h, h[old].sibRight, old, new)
              EXCEPT ![new].sibRight = h[old].sibRight, ![old].sibRight = Null]
    ELSE h

\* PQTree::exchangeNodes(oldNode, newNode); m_root is left to the caller
exchangeNodes(h, old, new) ==
    [takeRight(takeLeft(takeRing(takeParentLink(h, old, new), old, new),
                        old, new), old, new)
        EXCEPT ![new].parent = h[old].parent]

\* PQTree::linkChildrenOfQnode(installedChild, newChild)
linkChildrenOfQnode(h, installed, new) ==
    IF installed = Null \/ new = Null THEN h
    ELSE putSibling(putSibling(h, installed, new, "Left"), new, installed,
                    IF h[installed].sibLeft = Null THEN "Right" ELSE "Left")

\* PQTree::addNodeToNewParent(parent, child, leftBrother, rightBrother), for
\* a Q-node: with a parent the child becomes the new endmost child next to
\* its one brother; without a parent it is linked between its two brothers.
addNodeToNewParent(h, parent, child, leftBrother, rightBrother) ==
    IF parent # Null
    THEN linkChildrenOfQnode(
             changeEndmost([h EXCEPT ![child].parent = parent,
                                     ![parent].childCount = @ + 1],
                           parent,
                           IF leftBrother # Null THEN leftBrother ELSE rightBrother,
                           child),
             IF leftBrother # Null THEN leftBrother ELSE rightBrother, child)
    ELSE [changeSiblings(changeSiblings(h, leftBrother, rightBrother, child),
                         rightBrother, leftBrother, child)
              EXCEPT ![child].sibLeft = leftBrother,
                     ![child].sibRight = rightBrother]

\* The loop of PQTree::addNewLeavesToTree: one PQLeaf per further key
RECURSIVE AddLeaves(_, _, _, _, _)
AddLeaves(T, father, keys, i, oldSon) ==
    IF i > Len(keys) THEN [T |-> T, last |-> oldSon]
    ELSE AddLeaves([Alloc(T, [NewLeaf(keys[i]) EXCEPT !.parent = father,
                                                      !.sibLeft = oldSon])
                       EXCEPT !.h[father].childCount = @ + 1,
                              !.h[oldSon].sibRight = T.id],
                   father, keys, i + 1, T.id)

\* The end of PQTree::addNewLeavesToTree: the leaves of a P-node are closed
\* to a ring, of a Q-node the two ends are set
closeLeaves(R, father, firstSon) ==
    IF Type(R.T.h, father) = "PNode"
    THEN [R.T EXCEPT !.h[firstSon].sibLeft = R.last,
                     !.h[R.last].sibRight = firstSon,
                     !.h[father].referenceChild = firstSon,
                     !.h[firstSon].referenceParent = father]
    ELSE [R.T EXCEPT !.h[father].leftEndmost = firstSon,
                     !.h[father].rightEndmost = R.last]

\* PQTree::addNewLeavesToTree(father, leafKeys)
addNewLeavesToTree(T, father, keys) ==
    IF keys = <<>> THEN T
    ELSE closeLeaves(
             AddLeaves([Alloc(T, [NewLeaf(keys[1]) EXCEPT !.parent = father])
                           EXCEPT !.h[father].childCount = @ + 1],
                       father, keys, 2, T.id),
             father, T.id)

EmptyTree ==
    [h |-> <<>>, root |-> Null, pr |-> Null, pn |-> <<>>, id |-> 1,
     fr |-> {}, bad |-> {}]

\* PQTree::Initialize(leafKeys): 0 and no tree for an empty list, a bare
\* leaf for one key, a P-node over one leaf per key otherwise
PQTreeInitialize(T, keys) ==
    IF keys = <<>> THEN [T |-> T, ret |-> 0]
    ELSE IF Len(keys) >= 2
    THEN LET r  == T.id
             T1 == Alloc(T, [NewNode("PNode", "Empty") EXCEPT
                                !.sibLeft = r, !.sibRight = r])
             T2 == [T1 EXCEPT !.root = r]
         IN  [T |-> addNewLeavesToTree(T2, r, keys), ret |-> 1]
    ELSE LET r  == T.id
             T1 == Alloc(T, [NewLeaf(keys[1]) EXCEPT
                                !.sibLeft = r, !.sibRight = r])
         IN  [T |-> [T1 EXCEPT !.root = r], ret |-> 1]

\* castLeafKeys with the loop stopping one key early
castLeafKeys_dropsLast(leafKeys) ==
    IF leafKeys = <<>> THEN <<>> ELSE SubSeq(leafKeys, 1, Len(leafKeys) - 1)

\* The cast loop of EmbedPQTree::Initialize and EmbedPQTree::Reduction
castLeafKeys(leafKeys) == [i \in 1..Len(leafKeys) |-> leafKeys[i]]

\* EmbedPQTree::Initialize(leafKeys)
Initialize(T, leafKeys) == PQTreeInitialize(T, castLeafKeys(leafKeys))

(***************************************************************************)
(* The client functions EmbedPQTree overrides: the template matching sees  *)
(* the siblings with the direction indicators skipped.                     *)
(***************************************************************************)
\* the loop left after the first indicator
SkipIndicators_once(h, predNode, nodePtr) ==
    IF nodePtr # Null /\ Status(h, nodePtr) = "Indicator"
    THEN getNextSib(h, nodePtr, predNode)
    ELSE nodePtr

\* The while loop of EmbedPQTree::clientSibLeft / clientSibRight
RECURSIVE SkipIndicators(_, _, _)
SkipIndicators(h, predNode, nodePtr) ==
    IF nodePtr # Null /\ Status(h, nodePtr) = "Indicator"
    THEN SkipIndicators(h, nodePtr, getNextSib(h, nodePtr, predNode))
    ELSE nodePtr

\* EmbedPQTree::clientSibLeft(nodePtr)
clientSibLeft(h, x) == SkipIndicators(h, x, h[x].sibLeft)

\* EmbedPQTree::clientSibRight(nodePtr)
clientSibRight(h, x) == SkipIndicators(h, x, h[x].sibRight)

\* EmbedPQTree::clientNextSib(nodePtr, other)
clientNextSib(h, x, other) ==
    LET left == clientSibLeft(h, x)
        right == clientSibRight(h, x)
    IN  IF left # other THEN left
        ELSE IF right # other THEN right
        ELSE Null

\* EmbedPQTree::clientLeftEndmost(nodePtr)
clientLeftEndmost(h, x) ==
    LET left == h[x].leftEndmost
    IN  IF left = Null \/ Status(h, left) # "Indicator" THEN left
        ELSE clientNextSib(h, left, Null)

\* EmbedPQTree::clientRightEndmost(nodePtr)
clientRightEndmost(h, x) ==
    LET right == h[x].rightEndmost
    IN  IF right = Null \/ Status(h, right) # "Indicator" THEN right
        ELSE clientNextSib(h, right, Null)

(***************************************************************************)
(* Frontier scans.  A frontier entry is the key of a leaf (k) or the node  *)
(* information of an indicator (n): PQBasicKey*.                           *)
(***************************************************************************)
LeafEntry(h, x) == [k |-> h[x].key, n |-> Null]

IndEntry(x) == [k |-> 0, n |-> x]

RECURSIVE frontSiblings(_, _, _, _, _, _)
\* the sibling loop without the test for the direction of an indicator
frontSiblings_noDirection(T, S, keys, firstSon, nextSon, oldSib) ==
    IF nextSon = Null \/ nextSon = firstSon
    THEN [T |-> T, S |-> S, keys |-> keys]
    ELSE frontSiblings(
             IF Status(T.h, nextSon) = "Indicator"
             THEN [T EXCEPT !.pn = Append(T.pn, nextSon)] ELSE T,
             IF Status(T.h, nextSon) = "Indicator" THEN S ELSE Append(S, nextSon),
             IF Status(T.h, nextSon) = "Indicator"
             THEN Append(keys, IndEntry(nextSon)) ELSE keys,
             firstSon, getNextSib(T.h, nextSon, oldSib), nextSon)

\* The sibling loop of EmbedPQTree::front (lines 458-477)
frontSiblings(T, S, keys, firstSon, nextSon, oldSib) ==
    IF nextSon = Null \/ nextSon = firstSon
    THEN [T |-> T, S |-> S, keys |-> keys]
    ELSE LET isInd == Status(T.h, nextSon) = "Indicator"
             T1 == IF isInd
                   THEN [T EXCEPT
                           !.h = IF oldSib = getSib(T.h, nextSon, "Left")
                                 THEN [T.h EXCEPT ![nextSon].changeDir = TRUE]
                                 ELSE T.h,
                           !.pn = Append(T.pn, nextSon)]
                   ELSE T
             keys1 == IF isInd THEN Append(keys, IndEntry(nextSon)) ELSE keys
             S1 == IF isInd THEN S ELSE Append(S, nextSon)
             holdSib == getNextSib(T.h, nextSon, oldSib)
         IN  frontSiblings(T1, S1, keys1, firstSon, holdSib, nextSon)

\* The stack loop of EmbedPQTree::front (lines 432-479)
RECURSIVE frontLoop(_, _, _)
\* The stack loop goes on with what the sibling loop left
frontNext(R) == frontLoop(R.T, R.S, R.keys)

\* Lines 438-445
firstSonOf(h, checkNode) ==
    IF Type(h, checkNode) = "PNode" THEN h[checkNode].referenceChild
    ELSE h[checkNode].rightEndmost

\* Lines 447-477: an indicator as first son is recorded and marked, any
\* other first son is stacked, then the siblings are walked
frontInner(T, S0, keys, firstSon) ==
    IF firstSon = Null
    THEN frontLoop([T EXCEPT !.bad = @ \cup {"front:firstSon"}], S0, keys)
    ELSE frontNext(frontSiblings(
             IF Status(T.h, firstSon) = "Indicator"
             THEN [T EXCEPT !.pn = Append(@, firstSon),
                            !.h = destroyNode(@, firstSon)]
             ELSE T,
             IF Status(T.h, firstSon) = "Indicator" THEN S0
             ELSE Append(S0, firstSon),
             IF Status(T.h, firstSon) = "Indicator"
             THEN Append(keys, IndEntry(firstSon)) ELSE keys,
             firstSon, getNextSib(T.h, firstSon, Null), firstSon))

frontLoop(T, S, keys) ==
    IF S = <<>> THEN [T |-> T, keys |-> keys]
    ELSE IF Type(T.h, S[Len(S)]) = "Leaf"
    THEN frontLoop(T, SubSeq(S, 1, Len(S) - 1),
                   Append(keys, LeafEntry(T.h, S[Len(S)])))
    ELSE frontInner(T, SubSeq(S, 1, Len(S) - 1), keys,
                    firstSonOf(T.h, S[Len(S)]))

\* EmbedPQTree::front(nodePtr, keys): keys are appended to the list given
front(T, nodePtr, keys) == frontLoop(T, <<nodePtr>>, keys)

\* The sibling loop of EmbedPQTree::getFront (lines 517-527)
RECURSIVE getFrontSiblings(_, _, _, _, _, _)
getFrontSiblings(h, S, keys, firstSon, nextSon, oldSib) ==
    IF nextSon = Null \/ nextSon = firstSon
    THEN [S |-> S, keys |-> keys]
    ELSE getFrontSiblings(h,
             IF Status(h, nextSon) = "Indicator" THEN S ELSE Append(S, nextSon),
             IF Status(h, nextSon) = "Indicator"
             THEN Append(keys, IndEntry(nextSon)) ELSE keys,
             firstSon, getNextSib(h, nextSon, oldSib), nextSon)

\* The stack loop of EmbedPQTree::getFront (lines 493-529)
RECURSIVE getFrontLoop(_, _, _)
\* The stack loop goes on with what the sibling loop left
getFrontNext(h, R) == getFrontLoop(h, R.S, R.keys)

\* getFront that forgets to stack the first son
getFrontInner_dropsFirstSon(h, S0, keys, firstSon) ==
    getFrontNext(h, getFrontSiblings(h, S0, keys, firstSon,
                                     getNextSib(h, firstSon, Null), firstSon))

\* Lines 508-527: an indicator as first son is recorded, any other first son
\* is stacked, then the siblings are walked
getFrontInner(h, S0, keys, firstSon) ==
    IF firstSon = Null THEN getFrontLoop(h, S0, keys)
    ELSE getFrontNext(h, getFrontSiblings(h,
             IF Status(h, firstSon) = "Indicator" THEN S0
             ELSE Append(S0, firstSon),
             IF Status(h, firstSon) = "Indicator"
             THEN Append(keys, IndEntry(firstSon)) ELSE keys,
             firstSon, getNextSib(h, firstSon, Null), firstSon))

getFrontLoop(h, S, keys) ==
    IF S = <<>> THEN keys
    ELSE IF Type(h, S[Len(S)]) = "Leaf"
    THEN getFrontLoop(h, SubSeq(S, 1, Len(S) - 1),
                      Append(keys, LeafEntry(h, S[Len(S)])))
    ELSE getFrontInner(h, SubSeq(S, 1, Len(S) - 1), keys,
                       firstSonOf(h, S[Len(S)]))

\* getFront that scans as front does, marking what it finds
getFront_asFront(T, nodePtr, keys) == front(T, nodePtr, keys)

\* EmbedPQTree::getFront(nodePtr, keys)
getFront(T, nodePtr, keys) ==
    [T |-> T, keys |-> getFrontLoop(T.h, <<nodePtr>>, keys)]

(***************************************************************************)
(* The sweep after a reduction.                                            *)
(***************************************************************************)
\* PQTree::emptyNode(nodePtr)
emptyNode(h, x) ==
    [SetStatus(h, x, "Empty") EXCEPT ![x].pertChildCount = 0,
                                     ![x].pertLeafCount = 0,
                                     ![x].fullChildren = <<>>,
                                     ![x].partialChildren = <<>>]

\* EmbedPQTree::clientDefinedEmptyNode(nodePtr): an indicator is deleted
clientDefinedEmptyNode(T, x) ==
    IF Status(T.h, x) = "Indicator" THEN [T EXCEPT !.fr = @ \cup {x}]
    ELSE [T EXCEPT !.h = emptyNode(@, x)]

\* PQTree::emptyAllPertinentNodes(): the while loop over m_pertinentNodes,
\* after which no pertinent root is left.  A node marked ToBeDeleted is
\* deleted; a node that was deleted earlier in the sweep is read after its
\* deletion.
RECURSIVE PQTreeEmptyAllPertinentNodes(_)
PQTreeEmptyAllPertinentNodes(T) ==
    IF T.pn = <<>> THEN [T EXCEPT !.pr = Null]
    ELSE IF Head(T.pn) \in T.fr
    THEN PQTreeEmptyAllPertinentNodes(
             [T EXCEPT !.pn = Tail(@), !.bad = @ \cup {"useAfterFree"}])
    ELSE IF Status(T.h, Head(T.pn)) = "ToBeDeleted"
    THEN PQTreeEmptyAllPertinentNodes(
             [T EXCEPT !.pn = Tail(@),
                       !.root = IF Head(T.pn) = @ THEN Null ELSE @,
                       !.fr = @ \cup {Head(T.pn)}])
    ELSE IF Status(T.h, Head(T.pn)) \in {"Full", "Partial"}
    THEN PQTreeEmptyAllPertinentNodes(
             [T EXCEPT !.pn = Tail(@), !.h = emptyNode(@, Head(T.pn))])
    ELSE PQTreeEmptyAllPertinentNodes(
             clientDefinedEmptyNode([T EXCEPT !.pn = Tail(@)], Head(T.pn)))

\* The for loop of EmbedPQTree::emptyAllPertinentNodes (lines 107-111)
RECURSIVE destroyFullNodes(_, _, _)
destroyFullNodes(h, pn, i) ==
    IF i > Len(pn) THEN h
    ELSE destroyFullNodes(IF Status(h, pn[i]) = "Full"
                          THEN destroyNode(h, pn[i]) ELSE h, pn, i + 1)

\* the sweep without the test of line 112
emptyAllPertinentNodes_freesRoot(T) ==
    PQTreeEmptyAllPertinentNodes([T EXCEPT !.h = destroyFullNodes(@, T.pn, 1)])

\* EmbedPQTree::emptyAllPertinentNodes(); by the test of line 112 the node
\* that was kept in the tree is not freed
emptyAllPertinentNodes(T) ==
    PQTreeEmptyAllPertinentNodes(
        [T EXCEPT !.h = IF T.pr # Null
                        THEN SetStatus(destroyFullNodes(@, T.pn, 1), T.pr, "Full")
                        ELSE destroyFullNodes(@, T.pn, 1)])

(***************************************************************************)
(* Replacement of the pertinent root.                                      *)
(***************************************************************************)
\* Lines 176-191 and 205-220: the new indicator is linked between the
\* pertinent root and its sibling on the far side of the scan, its left
\* sibling pointer towards the pertinent root.
insertIndicator(T, newInd, opposite0) ==
    LET pr == T.pr
        opposite == getNextSib(T.h, pr, opposite0)
        h1 == IF opposite = Null
              THEN addNodeToNewParent(T.h, T.h[pr].parent, newInd, pr, opposite)
              ELSE addNodeToNewParent(T.h, Null, newInd, pr, opposite)
        h2 == changeSiblings(h1, newInd, pr, Null)
        h3 == changeSiblings(h2, newInd, opposite, Null)
        h4 == putSibling(h3, newInd, pr, "Left")
        h5 == putSibling(h4, newInd, opposite, "Right")
    IN  [T EXCEPT !.h = h5]

\* The while loop of lines 228-232
RECURSIVE removeFullChildren(_, _)
removeFullChildren(h, x) ==
    IF h[x].fullChildren = <<>> THEN h
    ELSE LET currentNode == Head(h[x].fullChildren)
             h1 == [h EXCEPT ![x].fullChildren = Tail(@)]
         IN  removeFullChildren(removeChildFromSiblings(h1, currentNode), x)

\* leafKeys.front() == leafKeys.back() of line 174
singleKey(leafKeys) == leafKeys # <<>> /\ leafKeys[1] = leafKeys[Len(leafKeys)]

\* Lines 176-191 and 205-220 under their test of addIndicator
linkIndicator(T, newInd, addIndicator, opposite) ==
    IF addIndicator THEN insertIndicator(T, newInd, opposite) ELSE T

\* the single leaf is exchanged for the pertinent root without the root of
\* the tree being moved to it
replaceBySingleLeaf_keepsRoot(T, pr, leafKeys) ==
    [Alloc(T, NewLeaf(leafKeys[1])) EXCEPT
        !.h = exchangeNodes(@, pr, T.id),
        !.pr = Null]

\* Lines 192-199: a new leaf takes the place of the pertinent root
replaceBySingleLeaf(T, pr, leafKeys) ==
    [Alloc(T, NewLeaf(leafKeys[1])) EXCEPT
        !.h = exchangeNodes(@, pr, T.id),
        !.root = IF pr = @ THEN T.id ELSE @,
        !.pr = Null]

\* the child count of the pertinent root is not reset
replaceByPNode_keepsChildCount(T, pr, leafKeys) ==
    IF Type(T.h, pr) \in {"PNode", "QNode"}
    THEN addNewLeavesToTree(
             [T EXCEPT !.h = removeFullChildren(
                                 [@ EXCEPT ![pr].type = "PNode"], pr)],
             pr, castLeafKeys(leafKeys))
    ELSE addNewLeavesToTree(
             [Alloc(T, NewNode("PNode", "Empty")) EXCEPT
                 !.h = exchangeNodes(@, pr, T.id),
                 !.pr = Null],
             T.id, castLeafKeys(leafKeys))

\* Lines 222-244: the pertinent root becomes, or a leaf is exchanged for, a
\* P-node over the new leaves
replaceByPNode(T, pr, leafKeys) ==
    IF Type(T.h, pr) \in {"PNode", "QNode"}
    THEN addNewLeavesToTree(
             [T EXCEPT !.h = removeFullChildren(
                                 [@ EXCEPT ![pr].type = "PNode",
                                           ![pr].childCount = 0], pr)],
             pr, castLeafKeys(leafKeys))
    ELSE addNewLeavesToTree(
             [Alloc(T, NewNode("PNode", "Empty")) EXCEPT
                 !.h = exchangeNodes(@, pr, T.id),
                 !.pr = Null],
             T.id, castLeafKeys(leafKeys))

\* Lines 174-245: T holds the indicator newInd if one was asked for
replacePertinentRoot(T, newInd, leafKeys, addIndicator, opposite) ==
    IF singleKey(leafKeys)
    THEN replaceBySingleLeaf(linkIndicator(T, newInd, addIndicator, opposite),
                             T.pr, leafKeys)
    ELSE IF leafKeys # <<>>
    THEN replaceByPNode(linkIndicator(T, newInd, addIndicator, opposite),
                        T.pr, leafKeys)
    ELSE T

\* Lines 166-245: F is what front returned in line 165; the indicator is
\* allocated whenever one was asked for
replaceFrontedRoot(F, leafKeys, v, addIndicator, opposite) ==
    [T |-> replacePertinentRoot(
               IF addIndicator THEN Alloc(F.T, IndInfo(v)) ELSE F.T,
               F.T.id, leafKeys, addIndicator, opposite),
     frontier |-> F.keys]

\* EmbedPQTree::ReplaceFullRoot(leafKeys, frontier, v, addIndicator, opposite)
ReplaceFullRoot(T, leafKeys, frontier, v, addIndicator, opposite) ==
    replaceFrontedRoot(front(T, T.pr, frontier), leafKeys, v, addIndicator,
                       opposite)

\* The body of the while loop of lines 268-289 for one full child with the
\* client siblings l and r
noteSequenceEnd(h, currentNode, l, r, acc) ==
    IF l = Null \/ Status(h, l) = "Empty"
    THEN IF acc.beginSequence = Null
         THEN [acc EXCEPT !.beginSequence = currentNode,
                          !.predNode = l,
                          !.beginInd = h[currentNode].sibLeft]
         ELSE [acc EXCEPT !.endSequence = currentNode]
    ELSE IF r = Null \/ Status(h, r) = "Empty"
    THEN IF acc.beginSequence = Null
         THEN [acc EXCEPT !.beginSequence = currentNode,
                          !.predNode = r,
                          !.beginInd = h[currentNode].sibRight]
         ELSE [acc EXCEPT !.endSequence = currentNode]
    ELSE acc

\* The while loop of lines 268-289: the two ends of the run of full children
RECURSIVE findSequence(_, _, _)
findSequence(h, x, acc) ==
    IF h[x].fullChildren = <<>> THEN [h |-> h, seq |-> acc]
    ELSE findSequence([h EXCEPT ![x].fullChildren = Tail(@)], x,
             noteSequenceEnd(h, Head(h[x].fullChildren),
                             clientSibLeft(h, Head(h[x].fullChildren)),
                             clientSibRight(h, Head(h[x].fullChildren)), acc))

RECURSIVE scanIndicators(_, _, _, _, _)
\* the indicator loop with the direction tested against the left sibling
scanIndicators_testsLeft(T, frontier, currentNode, currentInd, nextNode) ==
    IF currentInd = nextNode THEN [T |-> T, frontier |-> frontier]
    ELSE IF currentInd = Null
    THEN [T |-> [T EXCEPT !.bad = @ \cup {"ReplacePartialRoot:currentInd"}],
          frontier |-> frontier]
    ELSE scanIndicators(
             [T EXCEPT !.h = removeChildFromSiblings(
                                 IF currentNode = getSib(@, currentInd, "Left")
                                 THEN [@ EXCEPT ![currentInd].changeDir = TRUE]
                                 ELSE @, currentInd),
                       !.pn = Append(@, currentInd)],
             Append(frontier, IndEntry(currentInd)), currentNode,
             getNextSib(T.h, currentInd, currentNode), nextNode)

\* The while loop of lines 310-320: the indicators between two full nodes
scanIndicators(T, frontier, currentNode, currentInd, nextNode) ==
    IF currentInd = nextNode THEN [T |-> T, frontier |-> frontier]
    ELSE IF currentInd = Null
    THEN [T |-> [T EXCEPT !.bad = @ \cup {"ReplacePartialRoot:currentInd"}],
          frontier |-> frontier]
    ELSE scanIndicators(
             [T EXCEPT !.h = removeChildFromSiblings(
                                 IF currentNode = getSib(@, currentInd, "Right")
                                 THEN [@ EXCEPT ![currentInd].changeDir = TRUE]
                                 ELSE @, currentInd),
                       !.pn = Append(@, currentInd)],
             Append(frontier, IndEntry(currentInd)), currentNode,
             getNextSib(T.h, currentInd, currentNode), nextNode)

RECURSIVE scanSequence(_, _, _, _)
\* Lines 322-324: the scanned node leaves the ring, the scan goes on with
\* the next one
leaveRing(I, currentNode, nextNode, q) ==
    IF nextNode = Null
    THEN [T |-> [I.T EXCEPT !.h = removeChildFromSiblings(@, currentNode),
                            !.bad = @ \cup {"ReplacePartialRoot:currentNode"}],
          frontier |-> I.frontier, currentNode |-> Null]
    ELSE scanSequence([I.T EXCEPT !.h = removeChildFromSiblings(@, currentNode)],
                      I.frontier, nextNode, q)

\* Lines 304-321: F is what front returned for currentNode in line 303
scanFronted(F, frontier, currentNode, nextNode, q) ==
    leaveRing(scanIndicators(F.T, frontier \o F.keys, currentNode,
                  getNextSib(F.T.h, currentNode, q.beginInd), nextNode),
              currentNode, nextNode, q)

\* The while loop of lines 301-325: every full node but the last is scanned
\* and taken out of the ring
scanSequence(T, frontier, currentNode, q) ==
    IF currentNode = q.endSequence
    THEN [T |-> T, frontier |-> frontier, currentNode |-> currentNode]
    ELSE scanFronted(front(T, currentNode, <<>>), frontier, currentNode,
                     clientNextSib(T.h, currentNode, q.predNode), q)

\* The assertions of lines 298-299
assertSequence(T, Q) ==
    [T EXCEPT !.h = Q.h,
              !.bad = @ \cup (IF Q.seq.beginSequence = Null
                              THEN {"ReplacePartialRoot:beginSequence"}
                              ELSE {})
                        \cup (IF Q.seq.endSequence = Null
                              THEN {"ReplacePartialRoot:endSequence"}
                              ELSE {})]

\* the frontier of the last full node put before what the scan collected
concFrontier_prepends(frontier, R) == [T |-> R.T, frontier |-> R.frontier \o frontier]

\* frontier.conc(partialFrontier) of line 330
concFrontier(frontier, R) == [T |-> R.T, frontier |-> frontier \o R.frontier]

\* Lines 327-330: the last full node becomes the pertinent root and is
\* replaced, with an indicator
replaceLastFull(S, pr, q, leafKeys, v) ==
    IF S.currentNode = Null THEN [T |-> S.T, frontier |-> S.frontier]
    ELSE concFrontier(S.frontier,
             ReplaceFullRoot([S.T EXCEPT !.h[S.currentNode].parent = pr,
                                         !.pr = S.currentNode],
                             leafKeys, <<>>, v, TRUE, q.beginInd))

\* Lines 298-330: Q is what the loop of lines 268-289 found
replaceSequence(T, Q, leafKeys, frontier, v) ==
    IF Q.seq.beginSequence = Null
    THEN [T |-> assertSequence(T, Q), frontier |-> frontier]
    ELSE replaceLastFull(scanSequence(assertSequence(T, Q), frontier,
                                      Q.seq.beginSequence, Q.seq),
                         T.pr, Q.seq, leafKeys, v)

\* EmbedPQTree::ReplacePartialRoot(leafKeys, frontier, v)
ReplacePartialRoot(T, leafKeys, frontier, v) ==
    replaceSequence(T,
        findSequence([T.h EXCEPT ![T.pr].childCount =
                                     @ + 1 - Len(T.h[T.pr].fullChildren)],
                     T.pr,
                     [beginSequence |-> Null, endSequence |-> Null,
                      predNode |-> Null, beginInd |-> Null]),
        leafKeys, frontier, v)

RECURSIVE splitFrontier(_, _, _)
\* the split that hands back only the indicators whose direction changed
splitFrontier_dropsNonOpposed(h, nodeFrontier, acc) ==
    IF nodeFrontier = <<>> THEN acc
    ELSE splitFrontier(h, Tail(nodeFrontier),
             IF Head(nodeFrontier).k # 0
             THEN [acc EXCEPT !.frontier = Append(@, Head(nodeFrontier).k)]
             ELSE IF h[Head(nodeFrontier).n].changeDir
             THEN [acc EXCEPT !.opposed = Append(@, h[Head(nodeFrontier).n].v)]
             ELSE acc)

\* Lines 86-99: the leaf keys go to frontier, the indicators to opposed or
\* nonOpposed by their changeDir flag
splitFrontier(h, nodeFrontier, acc) ==
    IF nodeFrontier = <<>> THEN acc
    ELSE LET entry == Head(nodeFrontier)
         IN  splitFrontier(h, Tail(nodeFrontier),
                 IF entry.k # 0
                 THEN [acc EXCEPT !.frontier = Append(@, entry.k)]
                 ELSE IF entry.n # Null
                 THEN IF h[entry.n].changeDir
                      THEN [acc EXCEPT !.opposed = Append(@, h[entry.n].v)]
                      ELSE [acc EXCEPT !.nonOpposed = Append(@, h[entry.n].v)]
                 ELSE acc)

\* Lines 75-76: the frontier of the whole tree was read, no pertinent root
\* is left
frontOfRoot(F) == [T |-> [F.T EXCEPT !.pr = Null], frontier |-> F.keys]

\* Lines 73-83: the scan that fills nodeFrontier
replaceAndScan(T, leafKeys, v) ==
    IF leafKeys = <<>> /\ T.pr = T.root
    THEN frontOfRoot(front(T, T.pr, <<>>))
    ELSE IF Status(T.h, T.pr) = "Full"
    THEN ReplaceFullRoot(T, leafKeys, <<>>, v, FALSE, Null)
    ELSE ReplacePartialRoot(T, leafKeys, <<>>, v)

\* Lines 86-99 for the scan R of lines 73-83: the three lists are handed
\* back with the tree; nodeFrontier is the local list before the split
splitScanned(R) ==
    splitFrontier(R.T.h, R.frontier,
                  [T |-> R.T, nodeFrontier |-> R.frontier, frontier |-> <<>>,
                   opposed |-> <<>>, nonOpposed |-> <<>>])

\* EmbedPQTree::ReplaceRoot(leafKeys, frontier, opposed, nonOpposed, v)
ReplaceRoot(T, leafKeys, v) == splitScanned(replaceAndScan(T, leafKeys, v))

(***************************************************************************)
(* Reduction of the base class PQTree: the bubble pass labels the          *)
(* pertinent subtree, the reduce pass matches the templates bottom-up.     *)
(***************************************************************************)
\* PQLeafKey::nodePointer(): the leaf most recently bound to the key
nodePointer(h, k) ==
    CHOOSE x \in DOMAIN h :
        /\ h[x].key = k /\ ~h[x].ind /\ h[x].type = "Leaf"
        /\ \A y \in DOMAIN h : (h[y].key = k /\ ~h[y].ind) => y <= x

\* The end of the sibling chain of x reached by leaving `prev' behind
RECURSIVE chainEnd(_, _, _, _)
chainEnd(h, start, x, prev) ==
    LET next == getNextSib(h, x, prev)
    IN  IF next = Null \/ next = start \/ next = x THEN x
        ELSE chainEnd(h, start, next, x)

\* The parent the bubble pass finds for a node: a child of a P-node and an
\* endmost child of a Q-node carry it, an interior child of a Q-node gets it
\* from the end of its sibling chain.
realParent(h, x) ==
    IF h[x].sibLeft = Null \/ h[x].sibRight = Null THEN h[x].parent
    ELSE LET e == chainEnd(h, x, h[x].sibLeft, x)
         IN  IF endmostChild(h, e) THEN h[e].parent ELSE h[x].parent

\* PQTree::Bubble: every node between a pertinent leaf and the pertinent
\* root enters m_pertinentNodes, learns its parent and counts its pertinent
\* children.  offTheTop counts the tree root when the pass runs past it.
RECURSIVE bubbleLoop(_, _, _)
\* The body of the loop for the node x with the parent p
bubbleNode(T, queue, offTheTop, x, p) ==
    IF p = Null THEN bubbleLoop(T, Tail(queue), 1)
    ELSE bubbleLoop([T EXCEPT !.h[x].parent = p,
                              !.h[p].pertChildCount = @ + 1,
                              !.pn = IF T.h[p].pertChildCount > 0 THEN @
                                     ELSE PushFront(@, p)],
                    IF T.h[p].pertChildCount > 0 THEN Tail(queue)
                    ELSE Append(Tail(queue), p), offTheTop)

bubbleLoop(T, queue, offTheTop) ==
    IF Len(queue) + offTheTop <= 1 THEN T
    ELSE bubbleNode(T, queue, offTheTop, Head(queue),
                    realParent(T.h, Head(queue)))

Bubble(T, leaves) ==
    bubbleLoop([T EXCEPT !.pn = Rev(leaves) \o @], leaves, 0)

\* A template that does not match: the tree is as it was
noMatch(T, x) == [ok |-> FALSE, root |-> x, T |-> T]

\* The end of templateL1, templateP1 and templateQ1: below the pertinent
\* root the full node enters the full children of its parent
matchedFull(T, x, isRoot) ==
    [ok |-> TRUE, root |-> x,
     T |-> IF isRoot THEN [T EXCEPT !.h = SetStatus(@, x, "Full")]
           ELSE [[T EXCEPT !.h = SetStatus(@, x, "Full")]
                    EXCEPT !.h[T.h[x].parent].fullChildren = PushFront(@, x)]]

\* PQTree::templateL1
templateL1(T, x, isRoot) ==
    IF Type(T.h, x) = "Leaf" /\ Status(T.h, x) = "Full"
    THEN matchedFull(T, x, isRoot)
    ELSE noMatch(T, x)

\* PQTree::templateP1: a P-node all of whose children are full
templateP1(T, x, isRoot) ==
    IF Type(T.h, x) = "PNode" /\ Len(T.h[x].fullChildren) = T.h[x].childCount
    THEN matchedFull(T, x, isRoot)
    ELSE noMatch(T, x)

\* The loop of PQTree::createNodeAndCopyFullChildren
linkAfter(h, oldSon, checkSon) ==
    IF oldSon = Null THEN h ELSE [h EXCEPT ![oldSon].sibRight = checkSon]

RECURSIVE copyFullChildren(_, _, _, _)
copyFullChildren(h, newNode, fullNodes, oldSon) ==
    IF fullNodes = <<>> THEN [h |-> h, last |-> oldSon]
    ELSE copyFullChildren(
             linkAfter([removeChildFromSiblings(h, Head(fullNodes)) EXCEPT
                           ![newNode].fullChildren = PushFront(@, Head(fullNodes)),
                           ![Head(fullNodes)].parent = newNode,
                           ![Head(fullNodes)].sibLeft = oldSon],
                       oldSon, Head(fullNodes)),
             newNode, Tail(fullNodes), Head(fullNodes))

\* The children copied are closed to the ring of the new P-node
closeRing(C, newNode, firstSon) ==
    [C.h EXCEPT ![firstSon].sibLeft = C.last,
                ![C.last].sibRight = firstSon,
                ![newNode].referenceChild = firstSon,
                ![firstSon].referenceParent = newNode]

\* PQTree::createNodeAndCopyFullChildren: one full child is reused, several
\* are gathered under a new full P-node
createNodeAndCopyFullChildren(T, fullNodes) ==
    IF Len(fullNodes) = 1
    THEN [T |-> [T EXCEPT !.h = removeChildFromSiblings(@, fullNodes[1])],
          newNode |-> fullNodes[1]]
    ELSE [T |-> [Alloc(T, [NewNode("PNode", "Full") EXCEPT
                              !.pertChildCount = Len(fullNodes),
                              !.childCount = Len(fullNodes)])
                    EXCEPT !.h = closeRing(copyFullChildren(@, T.id, fullNodes, Null),
                                           T.id, fullNodes[1]),
                           !.pn = PushFront(@, T.id)],
          newNode |-> T.id]

\* PQTree::checkIfOnlyChild(child, parent): a node left with one child is
\* replaced by that child
checkIfOnlyChild(T, child, parent) ==
    IF \/ Type(T.h, parent) = "PNode" /\ T.h[parent].childCount = 1
       \/ /\ Type(T.h, parent) = "QNode"
          /\ T.h[parent].leftEndmost = child
          /\ T.h[parent].rightEndmost = child
    THEN [T EXCEPT !.h = destroyNode(
                             exchangeNodes(
                                 [removeChildFromSiblings(@, child)
                                     EXCEPT ![child].parent = T.h[parent].parent],
                                 parent, child),
                             parent),
                   !.root = IF @ = parent THEN child ELSE @]
    ELSE T

\* The new full node n enters the ring of x between the reference child and
\* its right sibling r
insertFullNode(C, x) ==
    [ok |-> TRUE, root |-> C.newNode,
     T |-> [[[C.T EXCEPT !.h[C.newNode].parent = x,
                         !.h[C.newNode].sibRight =
                             C.T.h[C.T.h[x].referenceChild].sibRight,
                         !.h[C.newNode].sibLeft = C.T.h[x].referenceChild]
                EXCEPT !.h[C.T.h[x].referenceChild].sibRight = C.newNode]
                EXCEPT !.h[C.T.h[C.T.h[x].referenceChild].sibRight].sibLeft =
                           C.newNode]]

\* PQTree::templateP2: the root is a P-node with full and empty children
templateP2(T, x) ==
    IF Type(T.h, x) # "PNode" \/ T.h[x].partialChildren # <<>>
    THEN noMatch(T, x)
    ELSE insertFullNode(
             createNodeAndCopyFullChildren(
                 [T EXCEPT !.h[x].childCount = @ - Len(T.h[x].fullChildren) + 1,
                           !.h[x].fullChildren = <<>>],
                 T.h[x].fullChildren), x)

\* templateP3: the new partial Q-node takes the place of x and x becomes
\* its first child
newPartialQnode(T, x, newQnode) ==
    [[Alloc(T, NewNode("QNode", "Partial")) EXCEPT
         !.pn = PushFront(@, newQnode),
         !.h = exchangeNodes(@, x, newQnode)]
        EXCEPT !.h[x].parent = newQnode,
               !.h[newQnode].leftEndmost = x,
               !.h[newQnode].childCount = 1,
               !.h[x].childCount = @ - Len(T.h[x].fullChildren),
               !.h[x].fullChildren = <<>>]

\* templateP3: the node of the full children becomes the second child
appendFullNode(C, x, newQnode) ==
    [C.T EXCEPT !.h[newQnode].childCount = @ + 1,
                !.h[newQnode].fullChildren = PushFront(@, C.newNode),
                !.h[x].sibRight = C.newNode,
                !.h[C.newNode].sibLeft = x,
                !.h[C.newNode].sibRight = Null,
                !.h[newQnode].rightEndmost = C.newNode,
                !.h[C.newNode].parent = newQnode]

onlyChildOf(T, x) == checkIfOnlyChild(T, T.h[x].referenceChild, x)

notePartial(T, newQnode) ==
    [T EXCEPT !.h[T.h[newQnode].parent].partialChildren = PushFront(@, newQnode)]

\* PQTree::templateP3: a P-node below the root with full and empty children
\* becomes a partial Q-node over its empty and its full part
templateP3(T, x) ==
    IF Type(T.h, x) # "PNode" \/ T.h[x].partialChildren # <<>>
    THEN noMatch(T, x)
    ELSE [ok |-> TRUE, root |-> T.id,
          T |-> notePartial(
                    onlyChildOf(
                        appendFullNode(
                            createNodeAndCopyFullChildren(
                                newPartialQnode(T, x, T.id), T.h[x].fullChildren),
                            x, T.id),
                        x),
                    T.id)]

\* The node n becomes the endmost child at the full end of partialChild
attachAtEnd(h, partialChild, n, leftFull) ==
    [linkChildrenOfQnode(
         IF leftFull THEN [h EXCEPT ![partialChild].leftEndmost = n]
         ELSE [h EXCEPT ![partialChild].rightEndmost = n],
         IF leftFull THEN h[partialChild].leftEndmost
         ELSE h[partialChild].rightEndmost, n)
        EXCEPT ![n].parent = partialChild]

attachToPartial(C, partialChild) ==
    [C.T EXCEPT !.h = attachAtEnd(
                          [@ EXCEPT ![partialChild].childCount =
                                        C.T.h[partialChild].childCount + 1,
                                    ![partialChild].fullChildren =
                                        PushFront(C.T.h[partialChild].fullChildren,
                                                  C.newNode)],
                          partialChild, C.newNode,
                          Status(C.T.h, clientLeftEndmost(C.T.h, partialChild))
                              = "Full")]

\* PQTree::copyFullChildrenToPartial: the full children of a P-node become
\* the new endmost child at the full end of its partial child
copyFullChildrenToPartial(T, x, partialChild) ==
    IF T.h[x].fullChildren = <<>> THEN T
    ELSE attachToPartial(
             createNodeAndCopyFullChildren(
                 [T EXCEPT !.h[x].childCount = @ - Len(T.h[x].fullChildren),
                           !.h[x].fullChildren = <<>>],
                 T.h[x].fullChildren),
             partialChild)

\* PQTree::templateP4: the root is a P-node with one partial child
templateP4(T, x) ==
    IF Type(T.h, x) # "PNode" \/ Len(T.h[x].partialChildren) # 1
    THEN noMatch(T, x)
    ELSE [ok |-> TRUE, root |-> Head(T.h[x].partialChildren),
          T |-> checkIfOnlyChild(
                    copyFullChildrenToPartial(
                        [T EXCEPT !.h[x].partialChildren = Tail(@)],
                        x, Head(T.h[x].partialChildren)),
                    Head(T.h[x].partialChildren), x)]

\* The real endmost child of a partial Q-node at the end whose first
\* non-indicator child has status st
realEnd(h, q, st) ==
    IF Status(h, clientLeftEndmost(h, q)) = st THEN h[q].leftEndmost
    ELSE h[q].rightEndmost

\* templateP5: the partial child leaves x and takes its place
raisePartialChild(T, x, partialChild) ==
    [[T EXCEPT !.h[x].partialChildren = Tail(@),
               !.h[T.h[x].parent].partialChildren = PushFront(@, partialChild)]
        EXCEPT !.h = exchangeNodes(removeChildFromSiblings(@, partialChild),
                                   x, partialChild)]

\* templateP5: one empty child moves alone, several stay under x
emptyNodeOf(h, x, emptyChildCount) ==
    IF emptyChildCount = 1 THEN h[x].referenceChild ELSE x

attachEmptyEnd(h, partialChild, emptyNode1) ==
    [linkChildrenOfQnode(
         changeEndmost(h, partialChild, realEnd(h, partialChild, "Empty"),
                       emptyNode1),
         realEnd(h, partialChild, "Empty"), emptyNode1)
        EXCEPT ![emptyNode1].parent = partialChild,
               ![partialChild].childCount = @ + 1]

moveEmpty(h, x, partialChild, emptyChildCount, emptyNode1) ==
    IF emptyChildCount > 0
    THEN attachEmptyEnd(IF emptyChildCount = 1
                        THEN removeChildFromSiblings(h, emptyNode1)
                        ELSE [h EXCEPT ![x].childCount = emptyChildCount],
                        partialChild, emptyNode1)
    ELSE h

moveEmptyChildren(T, x, partialChild, emptyChildCount) ==
    [T EXCEPT !.h = IF emptyChildCount <= 1
                    THEN destroyNode(
                             moveEmpty(@, x, partialChild, emptyChildCount,
                                       emptyNodeOf(@, x, emptyChildCount)), x)
                    ELSE moveEmpty(@, x, partialChild, emptyChildCount,
                                   emptyNodeOf(@, x, emptyChildCount))]

\* PQTree::templateP5: a P-node below the root with one partial child; its
\* full children go to the full end and its empty children to the empty end
\* of the partial child, which takes its place
templateP5(T, x) ==
    IF Type(T.h, x) # "PNode" \/ Len(T.h[x].partialChildren) # 1
    THEN noMatch(T, x)
    ELSE [ok |-> TRUE, root |-> Head(T.h[x].partialChildren),
          T |-> moveEmptyChildren(
                    copyFullChildrenToPartial(
                        raisePartialChild(T, x, Head(T.h[x].partialChildren)),
                        x, Head(T.h[x].partialChildren)),
                    x, Head(T.h[x].partialChildren),
                    T.h[x].childCount - Len(T.h[x].fullChildren) - 1)]

\* templateP6: the second partial child leaves x
detachSecondPartial(T, x, partial_2) ==
    [T EXCEPT !.h = removeChildFromSiblings(
                        [@ EXCEPT ![x].partialChildren = <<>>,
                                  ![x].childCount = T.h[x].childCount - 1],
                        partial_2)]

\* templateP6: the children of partial_2 are linked to the full end of
\* partial_1
joinAt(g, partial_1, partial_2, fullEnd_1, fullEnd_2, emptyEnd_2) ==
    [changeEndmost(
         linkChildrenOfQnode(
             [g EXCEPT ![partial_1].fullChildren =
                           Rev(g[partial_2].fullChildren) \o @,
                       ![partial_2].fullChildren = <<>>],
             fullEnd_1, fullEnd_2),
         partial_1, fullEnd_1, emptyEnd_2)
        EXCEPT ![emptyEnd_2].parent = partial_1,
               ![partial_1].childCount = @ + g[partial_2].childCount]

joinPartials(T, partial_1, partial_2) ==
    [T EXCEPT !.h = destroyNode(
                        joinAt(@, partial_1, partial_2,
                               realEnd(@, partial_1, "Full"),
                               realEnd(@, partial_2, "Full"),
                               realEnd(@, partial_2, "Empty")),
                        partial_2)]

\* PQTree::templateP6: the root is a P-node with two partial children; they
\* are joined at their full ends around the full children
templateP6(T, x) ==
    IF Type(T.h, x) # "PNode" \/ Len(T.h[x].partialChildren) # 2
    THEN noMatch(T, x)
    ELSE [ok |-> TRUE, root |-> T.h[x].partialChildren[1],
          T |-> checkIfOnlyChild(
                    joinPartials(
                        copyFullChildrenToPartial(
                            detachSecondPartial(T, x, T.h[x].partialChildren[2]),
                            x, T.h[x].partialChildren[1]),
                        T.h[x].partialChildren[1], T.h[x].partialChildren[2]),
                    T.h[x].partialChildren[1], x)]

\* PQTree::checkChain: the run of full children around firstFull, walked
\* over the client siblings; it is the whole of fullChildren when the count
\* reaches zero
RECURSIVE fullRunEnd(_, _, _, _)
fullRunNext(h, x, n, next) ==
    IF next # Null /\ Status(h, next) = "Full"
    THEN fullRunEnd(h, next, x, n + 1)
    ELSE [end |-> x, n |-> n]

fullRunEnd(h, x, prev, n) == fullRunNext(h, x, n, clientNextSib(h, x, prev))

fullRunFrom(h, firstFull, s) ==
    IF s # Null /\ Status(h, s) = "Full"
    THEN fullRunEnd(h, s, firstFull, 1) ELSE [end |-> firstFull, n |-> 0]

chainOf(h, nodePtr, L, R) ==
    [ok |-> Len(h[nodePtr].fullChildren) - 1 - L.n - R.n = 0,
     seqStart |-> L.end, seqEnd |-> R.end]

checkSides(h, nodePtr, firstFull, l, r) ==
    chainOf(h, nodePtr, fullRunFrom(h, firstFull, l),
            IF r # l THEN fullRunFrom(h, firstFull, r)
            ELSE [end |-> firstFull, n |-> 0])

checkChain(h, nodePtr, firstFull) ==
    checkSides(h, nodePtr, firstFull, clientSibLeft(h, firstFull),
               clientSibRight(h, firstFull))

\* PQTree::templateQ1: a Q-node all of whose children are full
templateQ1(T, x, isRoot) ==
    IF /\ Type(T.h, x) = "QNode"
       /\ Status(T.h, clientLeftEndmost(T.h, x)) = "Full"
       /\ Status(T.h, clientRightEndmost(T.h, x)) = "Full"
       /\ checkChain(T.h, x, clientLeftEndmost(T.h, x)).ok
    THEN matchedFull(T, x, isRoot)
    ELSE noMatch(T, x)

\* One partial child of PQTree::removeBlock: its children take its place in
\* the sibling chain of nodePtr, the full end towards the full (or the other
\* partial) sibling, or towards the end of nodePtr when it has none
spliceEnd(h, nodePtr, p, end, sib) ==
    IF sib # Null
    THEN changeSiblings(changeSiblings(h, sib, p, end), end, Null, sib)
    ELSE [changeEndmost(h, nodePtr, p, end) EXCEPT ![end].parent = nodePtr]

mergeOriented(h, nodePtr, p, onLeft) ==
    destroyNode(
        [spliceEnd(spliceEnd(h, nodePtr, p, realEnd(h, p, "Full"),
                             IF onLeft THEN h[p].sibLeft ELSE h[p].sibRight),
                   nodePtr, p, realEnd(h, p, "Empty"),
                   IF onLeft THEN h[p].sibRight ELSE h[p].sibLeft)
            EXCEPT ![nodePtr].fullChildren = Rev(h[p].fullChildren) \o @,
                   ![nodePtr].childCount = @ + h[p].childCount - 1,
                   ![p].fullChildren = <<>>,
                   ![p].sibLeft = Null, ![p].sibRight = Null],
        p)

mergePartialChild(h, nodePtr, p) ==
    mergeOriented(h, nodePtr, p,
        IF /\ clientSibLeft(h, p) # Null
           /\ Status(h, clientSibLeft(h, p)) \in {"Full", "Partial"}
        THEN TRUE
        ELSE IF /\ clientSibRight(h, p) # Null
                /\ Status(h, clientSibRight(h, p)) \in {"Full", "Partial"}
        THEN FALSE
        ELSE clientSibLeft(h, p) = Null)

RECURSIVE mergePartialChildren(_, _)
mergePartialChildren(h, nodePtr) ==
    IF h[nodePtr].partialChildren = <<>> THEN h
    ELSE mergePartialChildren(
             mergePartialChild([h EXCEPT ![nodePtr].partialChildren = Tail(@)],
                               nodePtr, Head(h[nodePtr].partialChildren)),
             nodePtr)

\* PQTree::removeBlock(nodePtr, isRoot)
markPartial(h, x, isRoot) ==
    IF isRoot THEN SetStatus(h, x, "Partial")
    ELSE [SetStatus(h, x, "Partial") EXCEPT
             ![h[x].parent].partialChildren = PushFront(@, x)]

removeBlock(T, x, isRoot) ==
    [T EXCEPT !.h = mergePartialChildren(markPartial(@, x, isRoot), x)]

adjacent(h, a, b) == clientSibLeft(h, a) = b \/ clientSibRight(h, a) = b

\* templateQ2: the run of full children starts at the one full end and is
\* followed by the partial child, if there is one
fullEndOf(h, le, re) == CHOOSE e \in {e \in {le, re} : Status(h, e) = "Full"} : TRUE

runThenPartial(h, x, fullNode, C) ==
    /\ C.ok
    /\ h[x].partialChildren # <<>> =>
           adjacent(h, IF C.seqStart = fullNode THEN C.seqEnd ELSE C.seqStart,
                    Head(h[x].partialChildren))

sequenceCons(h, x, le, re) ==
    IF h[x].fullChildren # <<>>
    THEN /\ Cardinality({e \in {le, re} : Status(h, e) = "Full"}) = 1
         /\ le # re
         /\ runThenPartial(h, x, fullEndOf(h, le, re),
                           checkChain(h, x, fullEndOf(h, le, re)))
    ELSE /\ h[x].partialChildren # <<>>
         /\ Head(h[x].partialChildren) \in {le, re}

\* PQTree::templateQ2: the full children of a Q-node form a run from one
\* end, followed by at most one partial child
templateQ2(T, x, isRoot) ==
    IF /\ Type(T.h, x) = "QNode"
       /\ Len(T.h[x].partialChildren) <= 1
       /\ sequenceCons(T.h, x, clientLeftEndmost(T.h, x),
                       clientRightEndmost(T.h, x))
    THEN [ok |-> TRUE, root |-> x, T |-> removeBlock(T, x, isRoot)]
    ELSE noMatch(T, x)

\* templateQ3: the partial children lie at the two ends of the run of full
\* children
runBetweenPartials(h, parts, C) ==
    /\ C.ok
    /\ \A i \in 1..Len(parts) :
           adjacent(h, C.seqStart, parts[i]) \/ adjacent(h, C.seqEnd, parts[i])
    /\ (Len(parts) = 2 /\ C.seqStart = C.seqEnd) =>
           clientSibLeft(h, C.seqStart) # clientSibRight(h, C.seqStart)

conssequence(h, x, parts) ==
    IF h[x].fullChildren # <<>>
    THEN runBetweenPartials(h, parts, checkChain(h, x, Head(h[x].fullChildren)))
    ELSE Len(parts) = 2 /\ adjacent(h, parts[1], parts[2])

\* PQTree::templateQ3: the root is a Q-node whose full children form one
\* run with at most one partial child at each end of it
templateQ3(T, x) ==
    IF /\ Type(T.h, x) = "QNode"
       /\ Len(T.h[x].partialChildren) <= 2
       /\ conssequence(T.h, x, T.h[x].partialChildren)
    THEN [ok |-> TRUE, root |-> x, T |-> removeBlock(T, x, TRUE)]
    ELSE noMatch(T, x)

\* The templates are tried in turn until one matches
orElse(M, N) == IF M.ok THEN M ELSE N

\* The templates tried on a node below the pertinent root and on the
\* pertinent root, in the order of PQTree::Reduce
matchInner(T, x) ==
    orElse(templateL1(T, x, FALSE),
    orElse(templateP1(T, x, FALSE),
    orElse(templateP3(T, x),
    orElse(templateP5(T, x),
    orElse(templateQ1(T, x, FALSE), templateQ2(T, x, FALSE))))))

matchRoot(T, x) ==
    orElse(templateL1(T, x, TRUE),
    orElse(templateP1(T, x, TRUE),
    orElse(templateP2(T, x),
    orElse(templateP4(T, x),
    orElse(templateP6(T, x),
    orElse(templateQ1(T, x, TRUE),
    orElse(templateQ2(T, x, TRUE), templateQ3(T, x))))))))

\* The while loop of PQTree::Reduce
RECURSIVE reduceLoop(_, _, _)
\* The pertinent root was matched or the reduction fails
rootMatched(M) ==
    [T |-> [M.T EXCEPT !.pr = IF M.ok THEN M.root ELSE Null], ret |-> M.ok]

\* A node below the pertinent root was matched or the reduction fails
innerMatched(M, queue, pertLeafCount) ==
    IF M.ok THEN reduceLoop(M.T, queue, pertLeafCount)
    ELSE [T |-> [M.T EXCEPT !.pr = Null], ret |-> FALSE]

\* The parent p of checkNode has one pertinent child less to wait for and
\* is processed when it waits for none
reduceInner(T, checkNode, p, rest, pertLeafCount) ==
    innerMatched(matchInner(T, checkNode),
                 IF T.h[p].pertChildCount = 0 THEN Append(rest, p) ELSE rest,
                 pertLeafCount)

reduceLoop(T, processNodes, pertLeafCount) ==
    IF processNodes = <<>> THEN [T |-> [T EXCEPT !.pr = Null], ret |-> FALSE]
    ELSE IF T.h[Head(processNodes)].pertLeafCount < pertLeafCount
    THEN reduceInner(
             [T EXCEPT !.h[T.h[Head(processNodes)].parent].pertLeafCount =
                           @ + T.h[Head(processNodes)].pertLeafCount,
                       !.h[T.h[Head(processNodes)].parent].pertChildCount = @ - 1],
             Head(processNodes), T.h[Head(processNodes)].parent,
             Tail(processNodes), pertLeafCount)
    ELSE rootMatched(matchRoot(T, Head(processNodes)))

RECURSIVE markLeaves(_, _, _)
markLeaves(h, leaves, i) ==
    IF i > Len(leaves) THEN h
    ELSE markLeaves([SetStatus(h, leaves[i], "Full")
                        EXCEPT ![leaves[i]].pertLeafCount = 1], leaves, i + 1)

\* PQTree::Reduce(leafKeys)
Reduce(T, leaves) ==
    reduceLoop([T EXCEPT !.h = markLeaves(@, leaves, 1)], leaves, Len(leaves))

\* PQTree::Reduction(leafKeys): Bubble, then Reduce on the leaves the keys
\* are bound to
PQTreeReduction(T, leafKeys) ==
    Reduce(Bubble(T, [i \in 1..Len(leafKeys) |-> nodePointer(T.h, leafKeys[i])]),
           [i \in 1..Len(leafKeys) |-> nodePointer(T.h, leafKeys[i])])

\* Reduction that drops the result of the base class and reports success
Reduction_reportsSuccess(T, leafKeys) ==
    [PQTreeReduction(T, castLeafKeys(leafKeys)) EXCEPT !.ret = TRUE]

\* EmbedPQTree::Reduction(leafKeys)
Reduction(T, leafKeys) == PQTreeReduction(T, castLeafKeys(leafKeys))

(***************************************************************************)
(* Reading a tree: the children of a node in sibling order, the nodes and  *)
(* the leaves reachable from the root.                                     *)
(***************************************************************************)
RECURSIVE walkChain(_, _, _, _, _)
walkChain(h, first, x, prev, acc) ==
    IF x \notin DOMAIN h \/ (x = first /\ acc # <<>>)
       \/ Len(acc) > Cardinality(DOMAIN h)
    THEN acc
    ELSE walkChain(h, first, getNextSib(h, x, prev), x, Append(acc, x))

\* All children, indicators included: from the reference child of a P-node
\* leftwards as front walks it, from the left endmost child of a Q-node
children(h, x) ==
    IF h[x].ind \/ h[x].type = "Leaf" THEN <<>>
    ELSE IF h[x].type = "PNode"
    THEN IF h[x].referenceChild = Null THEN <<>>
         ELSE walkChain(h, h[x].referenceChild, h[x].referenceChild, Null, <<>>)
    ELSE IF h[x].leftEndmost = Null THEN <<>>
         ELSE walkChain(h, Null, h[x].leftEndmost, Null, <<>>)

\* The children the template matching sees
clientChildren(h, x) == LET notInd(c) == ~h[c].ind IN SelectSeq(children(h, x), notInd)

RECURSIVE subtree(_, _, _)
subtree(h, todo, acc) ==
    IF todo = {} THEN acc
    ELSE LET x == CHOOSE y \in todo : TRUE
             cs == Range(children(h, x)) \ (acc \cup {x})
         IN  subtree(h, (todo \ {x}) \cup cs, acc \cup {x})

\* The nodes of the tree below and including x
treeNodes(h, x) == IF x = Null THEN {} ELSE subtree(h, {x}, {})

treeLeaves(h, x) == {y \in treeNodes(h, x) : ~h[y].ind /\ h[y].type = "Leaf"}

leafKeysOf(h, x) == {h[y].key : y \in treeLeaves(h, x)}

\* The keys of the leaf entries of a frontier, in order
RECURSIVE entryKeys(_)
entryKeys(keys) ==
    IF keys = <<>> THEN <<>>
    ELSE IF Head(keys).k # 0 THEN <<Head(keys).k>> \o entryKeys(Tail(keys))
    ELSE entryKeys(Tail(keys))

(***************************************************************************)
(* Structural consistency of the tree reachable from the root.             *)
(***************************************************************************)
\* a sibling link of x leads to a deleted node or is not answered by it
danglingSibling(h, fr, x) ==
    \E s \in {h[x].sibLeft, h[x].sibRight} \ {Null} :
        \/ s \in fr
        \/ s \notin DOMAIN h
        \/ x \notin {h[s].sibLeft, h[s].sibRight}

\* an interior node whose child links cs do not describe its children
brokenLinks(h, x, cs) ==
    IF h[x].ind \/ h[x].type = "Leaf" THEN FALSE
    ELSE IF h[x].type = "PNode"
    THEN \/ cs = <<>>
         \/ ~IsInjective(cs)
         \/ h[h[x].referenceChild].referenceParent # x
         \/ \E i \in 1..Len(cs) : h[cs[i]].parent # x
         \/ Len(cs) # h[x].childCount
    ELSE \/ cs = <<>>
         \/ ~IsInjective(cs)
         \/ cs[Len(cs)] # h[x].rightEndmost
         \/ h[h[x].leftEndmost].parent # x
         \/ h[h[x].rightEndmost].parent # x

\* no node of the tree is deleted, every sibling link is answered, every
\* interior node describes its children and the root hangs nowhere
consistentNodes(h, fr, root, N) ==
    /\ root # Null
    /\ N \cap fr = {}
    /\ h[root].parent = Null
    /\ \A x \in N : ~danglingSibling(h, fr, x) /\ ~brokenLinks(h, x, children(h, x))

consistent(h, fr, root) == consistentNodes(h, fr, root, treeNodes(h, root))

\* nodes that are allocated, not deleted and not part of the tree
orphans(h, fr, root) == (DOMAIN h \ fr) \ treeNodes(h, root)

(***************************************************************************)
(* The driver: Initialize, then rounds of Reduction, ReplaceRoot and       *)
(* emptyAllPertinentNodes; getFront inspects the tree between rounds.      *)
(* The driver first replays a script of inputs and then chooses freely.    *)
(***************************************************************************)
Cur ==
    [h |-> nodes, root |-> m_root, pr |-> m_pertinentRoot,
     pn |-> m_pertinentNodes, id |-> m_identificationNumber, fr |-> freed,
     bad |-> failedAsserts]

Set(T) ==
    /\ nodes' = T.h
    /\ m_root' = T.root
    /\ m_pertinentRoot' = T.pr
    /\ m_pertinentNodes' = T.pn
    /\ m_identificationNumber' = T.id
    /\ freed' = T.fr
    /\ failedAsserts' = T.bad

\* A round of a script: the keys to reduce and the keys that replace them
\* (nk fresh keys, or the reduced keys again when nk = -1)
Round(S, nk) == [S |-> S, nk |-> nk]

\* The scripts: none; four keys; five keys reduced as a whole and replaced by
\* themselves; a single leaf replaced by two keys;
\* six rounds that build the root Q-node with the leaf children 5, 8, 12, 13;
\* the same with a seventh round that puts a P-node in the place of leaf 5;
\* the same with a seventh round that replaces the run 8, 5 at the end of the
\* Q-node and leaves an indicator as its endmost child;
\* three keys of which one is replaced by two, and then a partial Q-node
\* below the root whose full run is replaced by no key
Scripts ==
    { <<>>,
      <<4>>,
      <<3, Round(<<1>>, 2), Round(<<5, 2>>, 0)>>,
      <<5, Round(<<1, 2, 3, 4, 5>>, -1)>>,
      <<1, Round(<<1>>, 2)>>,
      <<3, Round(<<1, 2>>, 2), Round(<<4>>, 2), Round(<<6>>, 2), Round(<<7>>, 2),
           Round(<<9, 10>>, 1), Round(<<11, 3>>, 1)>>,
      <<3, Round(<<1, 2>>, 2), Round(<<4>>, 2), Round(<<6>>, 2), Round(<<7>>, 2),
           Round(<<9, 10>>, 1), Round(<<11, 3>>, 1), Round(<<5>>, 2)>>,
      <<3, Round(<<1, 2>>, 2), Round(<<4>>, 2), Round(<<6>>, 2), Round(<<7>>, 2),
           Round(<<9, 10>>, 1), Round(<<11, 3>>, 1), Round(<<5, 8>>, -1)>> }

SetToSeq(S) == 
    LET RECURSIVE build(_)
        build(R) == IF R = {} THEN <<>>
                    ELSE LET m == CHOOSE x \in R : \A y \in R : x <= y
                         IN  <<m>> \o build(R \ {m})
    IN  build(S)

\* A fresh key is larger than every key bound so far
nextKey(h) ==
    LET ks == {h[x].key : x \in DOMAIN h}
    IN  IF ks = {} THEN 1 ELSE 1 + CHOOSE k \in ks : \A j \in ks : j <= k

freshKeys(h, n) == [i \in 1..n |-> nextKey(h) + i - 1]

ReductionChoices ==
    IF script # <<>> THEN {Head(script).S}
    ELSE IF rounds = 0 THEN {}
    ELSE LET ks == leafKeysOf(nodes, m_root)
         IN  UNION {{SetToSeq(S), Rev(SetToSeq(S))} : S \in (SUBSET ks) \ {{}}}

Init ==
    /\ nodes = EmptyTree.h
    /\ m_root = EmptyTree.root
    /\ m_pertinentRoot = EmptyTree.pr
    /\ m_pertinentNodes = EmptyTree.pn
    /\ m_identificationNumber = EmptyTree.id
    /\ freed = EmptyTree.fr
    /\ failedAsserts = EmptyTree.bad
    /\ phase = "new"
    /\ out = [op |-> "none"]
    /\ pre = EmptyTree
    /\ script \in Scripts
    /\ rounds = MaxRounds
    /\ hg = Null
    /\ hgOut = Null
    /\ finder = Null
    /\ planRep = Null

\* What the driver keeps of a call: the tree it leaves, the phase it leads
\* to and the values it returned
InitializeReturns(keys, R) ==
    /\ Set(R.T)
    /\ phase' = IF R.ret = 0 THEN "invalid" ELSE "stable"
    /\ out' = [op |-> "Initialize", keys |-> keys, ret |-> R.ret]

DoInitialize ==
    /\ phase = "new"
    /\ \E n \in (IF script = <<>> THEN 0..MaxInit ELSE {Head(script)}) :
          InitializeReturns(freshKeys(nodes, n),
                            Initialize(Cur, freshKeys(nodes, n)))
    /\ script' = IF script = <<>> THEN script ELSE Tail(script)
    /\ UNCHANGED <<pre, rounds, otherVars>>

ReductionReturns(leafKeys, R) ==
    /\ Set(R.T)
    /\ phase' = IF R.ret THEN "reduced" ELSE "failed"
    /\ out' = [op |-> "Reduction", keys |-> leafKeys, ret |-> R.ret]

DoReduction ==
    /\ phase = "stable"
    /\ \E leafKeys \in ReductionChoices :
          ReductionReturns(leafKeys, Reduction(Cur, leafKeys))
    /\ pre' = Cur
    /\ rounds' = IF script = <<>> THEN rounds - 1 ELSE rounds
    /\ UNCHANGED <<script, otherVars>>

ReplaceRootReturns(leafKeys, v, R) ==
    /\ Set(R.T)
    /\ out' = [op |-> "ReplaceRoot", keys |-> leafKeys, v |-> v,
               reduced |-> out.keys, before |-> Cur,
               nodeFrontier |-> R.nodeFrontier,
               frontier |-> R.frontier, opposed |-> R.opposed,
               nonOpposed |-> R.nonOpposed]

\* The keys that replace the reduced ones: these again, or nk fresh ones
replacingKeys(nk) == IF nk = -1 THEN out.keys ELSE freshKeys(nodes, nk)

DoReplaceRoot ==
    /\ phase = "reduced"
    /\ \E nk \in (IF script # <<>> THEN {Head(script).nk} ELSE (-1)..MaxNew) :
          ReplaceRootReturns(replacingKeys(nk), m_identificationNumber,
              ReplaceRoot(Cur, replacingKeys(nk), m_identificationNumber))
    /\ phase' = "replaced"
    /\ script' = IF script = <<>> THEN script ELSE Tail(script)
    /\ UNCHANGED <<pre, rounds, otherVars>>

\* besides, the driver keeps the tree the sweep was called on
EmptyAllPertinentNodesReturns(T) ==
    /\ Set(T)
    /\ phase' = IF T.root = Null THEN "torn"
                ELSE IF ~consistent(T.h, T.fr, T.root) THEN "corrupt"
                ELSE "stable"

DoEmptyAllPertinentNodes ==
    /\ phase = "replaced"
    /\ EmptyAllPertinentNodesReturns(emptyAllPertinentNodes(Cur))
    /\ out' = [f \in DOMAIN out \cup {"entry"} |->
                   IF f = "op" THEN "emptyAllPertinentNodes"
                   ELSE IF f = "entry" THEN Cur
                   ELSE out[f]]
    /\ UNCHANGED <<pre, script, rounds, otherVars>>

GetFrontReturns(x, R) ==
    /\ Set(R.T)
    /\ out' = [op |-> "getFront", node |-> x, keys |-> R.keys,
               calls |-> IF out.op = "getFront" THEN out.calls + 1 ELSE 1,
               last |-> IF out.op = "getFront" THEN out.keys ELSE <<>>,
               of |-> IF out.op = "getFront" THEN out.of ELSE out,
               before |-> Cur]

DoGetFront ==
    /\ phase = "stable"
    /\ IF out.op = "getFront" THEN out.calls < 2 ELSE TRUE
    /\ \E x \in (IF out.op = "getFront" THEN {out.node}
                 ELSE {y \in treeNodes(nodes, m_root) : ~nodes[y].ind}) :
          GetFrontReturns(x, getFront(Cur, x, <<>>))
    /\ UNCHANGED <<phase, pre, script, rounds, otherVars>>

Next ==
    \/ DoInitialize
    \/ DoReduction
    \/ DoReplaceRoot
    \/ DoEmptyAllPertinentNodes
    \/ DoGetFront

Spec == Init /\ [][Next]_vars

(***************************************************************************)
(* Initialize.                                                             *)
(***************************************************************************)
\* x is a leaf of the tree that carries key k
isLeafWithKey(h, x, k) == ~h[x].ind /\ h[x].type = "Leaf" /\ h[x].key = k

\* the sequence s lists every element of the sequence t exactly once
isPermutationOf(s, t) ==
    /\ Len(s) = Len(t)
    /\ IsInjective(s)
    /\ Range(s) = Range(t)

\* C1: Initialize(keys) builds a root P-node with exactly one leaf child per
\* key when keys has two or more elements and a bare leaf root when it has
\* one; with no key it fails (returns 0) and builds no tree.
C1_InitializeShape ==
    out.op = "Initialize" =>
        LET keys == out.keys
            cs == children(nodes, m_root)
        IN  IF keys = <<>>
            THEN out.ret = 0 /\ m_root = Null /\ DOMAIN nodes = {}
            ELSE IF Len(keys) = 1
            THEN /\ out.ret = 1
                 /\ isLeafWithKey(nodes, m_root, keys[1])
                 /\ DOMAIN nodes = {m_root}
            ELSE /\ out.ret = 1
                 /\ nodes[m_root].type = "PNode"
                 /\ nodes[m_root].childCount = Len(keys)
                 /\ \A i \in 1..Len(cs) : nodes[cs[i]].type = "Leaf" /\ ~nodes[cs[i]].ind
                 /\ isPermutationOf([i \in 1..Len(cs) |-> nodes[cs[i]].key], keys)
                 /\ DOMAIN nodes = {m_root} \cup Range(cs)

C1_Witness ==
    /\ out.op = "Initialize"
    /\ Len(out.keys) = 3
    /\ nodes[m_root].type = "PNode"
    /\ Len(children(nodes, m_root)) = 3

\* the index set I is one run i..j without a gap
isInterval(I) == \A i \in I : \A j \in I : \A k \in i..j : k \in I

\* the positions of the children of x, in the children's order as the
\* template matching sees it, that hold a leaf with a key of S below them
pertinentPositions(h, x, S) ==
    {i \in 1..Len(clientChildren(h, x)) : leafKeysOf(h, clientChildren(h, x)[i]) \cap S # {}}

\* the Q-nodes of the tree below root
qNodes(h, root) == {x \in treeNodes(h, root) : ~h[x].ind /\ h[x].type = "QNode"}

\* the keys [a,b,c,d] of the Q-nodes below root whose children are four
\* leaves, read from either end of the Q-node
fourLeafReadings(h, root) ==
    UNION {{[i \in 1..4 |-> h[clientChildren(h, x)[i]].key],
            [i \in 1..4 |-> h[clientChildren(h, x)[5 - i]].key]} :
           x \in {y \in qNodes(h, root) :
                     /\ Len(clientChildren(h, y)) = 4
                     /\ \A i \in 1..4 : h[clientChildren(h, y)[i]].type = "Leaf"}}

\* C2 (as amended): on a Q-node with the leaf children [a,b,c,d] Reduction
\* on {a,c} fails and Reduction on {a,b} succeeds, and a following
\* ReplaceRoot that is given at least one new key returns the two keys a
\* and b as frontier in one of the two directions of the run; a Reduction
\* whose leaves all lie below a Q-node succeeds only if the pertinent
\* children form one contiguous run.
C2_QnodeContiguous ==
    /\ out.op = "Reduction" =>
          /\ \A q \in fourLeafReadings(pre.h, pre.root) :
                /\ Range(out.keys) = {q[1], q[3]} => ~out.ret
                /\ Range(out.keys) = {q[1], q[2]} => out.ret
          /\ out.ret =>
                \A x \in qNodes(pre.h, pre.root) :
                    Range(out.keys) \subseteq leafKeysOf(pre.h, x) =>
                        isInterval(pertinentPositions(pre.h, x, Range(out.keys)))
    /\ (out.op = "ReplaceRoot" /\ out.keys # <<>>) =>
          \A q \in fourLeafReadings(pre.h, pre.root) :
              Range(out.reduced) = {q[1], q[2]} =>
                  out.frontier \in {<<q[1], q[2]>>, <<q[2], q[1]>>}

\* a ReplaceRoot after the reduction of the first two children {a,b} of a
\* Q-node with four leaf children
C2_Witness ==
    /\ out.op = "ReplaceRoot"
    /\ out.keys # <<>>
    /\ \E q \in fourLeafReadings(pre.h, pre.root) :
          /\ Range(out.reduced) = {q[1], q[2]}
          /\ Range(out.frontier) = {q[1], q[2]}

\* C2 as stated: the frontier returned after the reduction of {a,b} is the
\* sequence [a,b], whatever the order in which Reduction was given a and b
C2_FrontierInChildOrder ==
    out.op = "ReplaceRoot" =>
        \A q \in fourLeafReadings(pre.h, pre.root) :
            Range(out.reduced) = {q[1], q[2]} => out.frontier = <<q[1], q[2]>>

\* C3: after an Initialize with N >= 1 distinct keys the tree has exactly N
\* leaves, and front and getFront on the root each return every one of the
\* N keys exactly once, indicator entries aside.
C3_InitializeFront ==
    /\ (out.op = "Initialize" /\ out.keys # <<>>) =>
          /\ IsInjective(out.keys)
          /\ Cardinality(treeLeaves(nodes, m_root)) = Len(out.keys)
          /\ isPermutationOf(entryKeys(front(Cur, m_root, <<>>).keys), out.keys)
          /\ isPermutationOf(entryKeys(getFront(Cur, m_root, <<>>).keys), out.keys)
    /\ (out.op = "getFront" /\ out.of.op = "Initialize" /\ out.node = m_root) =>
          isPermutationOf(entryKeys(out.keys), out.of.keys)

\* getFront has returned the three keys of an Initialize with three keys
C3_Witness ==
    /\ out.op = "getFront"
    /\ out.node = m_root
    /\ out.of.op = "Initialize"
    /\ Len(out.of.keys) = 3
    /\ Len(out.keys) = 3
    /\ Cardinality(treeLeaves(nodes, m_root)) = 3

\* C4: Initialize with the single key e1, Reduction on {e1} and ReplaceRoot
\* with a single key leave a tree whose root is a single leaf with the key
\* given to ReplaceRoot; the frontier returned is [e1] and opposed and
\* nonOpposed are empty.
C4_SingleLeafReplaced ==
    (/\ out.op = "ReplaceRoot"
     /\ Len(out.keys) = 1
     /\ pre.root # Null
     /\ Type(pre.h, pre.root) = "Leaf") =>
        /\ out.reduced = <<pre.h[pre.root].key>>
        /\ m_root # Null
        /\ isLeafWithKey(nodes, m_root, out.keys[1])
        /\ treeNodes(nodes, m_root) = {m_root}
        /\ nodes[m_root].parent = Null
        /\ nodePointer(nodes, out.keys[1]) = m_root
        /\ out.frontier = out.reduced
        /\ out.opposed = <<>>
        /\ out.nonOpposed = <<>>

\* the single leaf e1 has been reduced and replaced by the same key e1
C4_Witness ==
    /\ out.op = "ReplaceRoot"
    /\ Type(pre.h, pre.root) = "Leaf"
    /\ out.keys = out.reduced
    /\ out.frontier = out.keys
    /\ isLeafWithKey(nodes, m_root, out.keys[1])

\* the tree below root is one P-node over n leaves
isPNodeOverLeaves(h, root, n) ==
    /\ root # Null
    /\ Type(h, root) = "PNode"
    /\ Len(children(h, root)) = n
    /\ \A i \in 1..n : Type(h, children(h, root)[i]) = "Leaf" /\ ~h[children(h, root)[i]].ind

\* C5: Initialize with five keys (in general two or more) under one P-node,
\* Reduction on all of them and ReplaceRoot with as many keys yield a single
\* P-node whose children are exactly the leaves of the keys given to
\* ReplaceRoot, with childCount equal to their number; the frontier
\* returned has that length and opposed and nonOpposed are empty.
C5_FullPNodeReplaced ==
    (/\ out.op = "ReplaceRoot"
     /\ Len(out.keys) >= 2
     /\ isPNodeOverLeaves(pre.h, pre.root, Len(out.keys))
     /\ Range(out.reduced) = leafKeysOf(pre.h, pre.root)) =>
        /\ m_root = pre.root
        /\ isPNodeOverLeaves(nodes, m_root, Len(out.keys))
        /\ nodes[m_root].childCount = Len(out.keys)
        /\ isPermutationOf([i \in 1..Len(out.keys) |->
                               nodes[children(nodes, m_root)[i]].key], out.keys)
        /\ treeNodes(nodes, m_root) = {m_root} \cup Range(children(nodes, m_root))
        /\ \A i \in 1..Len(out.keys) :
               nodePointer(nodes, out.keys[i]) \in Range(children(nodes, m_root))
        /\ isPermutationOf(out.frontier, out.reduced)
        /\ out.opposed = <<>>
        /\ out.nonOpposed = <<>>

\* five leaves under one P-node have been reduced and replaced by five keys
C5_Witness ==
    /\ out.op = "ReplaceRoot"
    /\ Len(out.keys) = 5
    /\ isPNodeOverLeaves(pre.h, pre.root, 5)
    /\ Len(out.reduced) = 5
    /\ Len(out.frontier) = 5
    /\ isPNodeOverLeaves(nodes, m_root, 5)

\* the leaves the keys of S were bound to before the reduction
reducedLeaves == {nodePointer(pre.h, out.reduced[i]) : i \in 1..Len(out.reduced)}

\* the leaves that ReplaceRoot has made for its keys
newLeaves ==
    {x \in DOMAIN nodes \ DOMAIN pre.h :
        ~nodes[x].ind /\ nodes[x].type = "Leaf" /\ nodes[x].key \in Range(out.keys)}

\* C6 as stated: after a successful Reduction over S, ReplaceRoot(leafKeys)
\* and emptyAllPertinentNodes no leaf of S is in the tree, the leaves of the
\* tree are the previous leaves without S and the leaves of leafKeys, and a
\* later Reduction reaches no node that was deleted.
C6_PertinentLeavesReplaced ==
    /\ out.op = "emptyAllPertinentNodes" =>
          /\ treeLeaves(nodes, m_root) \cap reducedLeaves = {}
          /\ Cardinality(newLeaves) = Len(out.keys)
          /\ treeLeaves(nodes, m_root) =
                (treeLeaves(pre.h, pre.root) \ reducedLeaves) \cup newLeaves
    /\ out.op = "Reduction" => Range(m_pertinentNodes) \cap pre.fr = {}

\* C7: getFront is read-only: the nodes with their status, links and
\* changeDir flags, the root, the pertinent root and the pertinent-node list
\* are after the call what they were before it, and the second of two
\* consecutive calls on the same node returns the keys of the first.
C7_GetFrontReadOnly ==
    out.op = "getFront" =>
        /\ nodes = out.before.h
        /\ m_root = out.before.root
        /\ m_pertinentRoot = out.before.pr
        /\ m_pertinentNodes = out.before.pn
        /\ freed = out.before.fr
        /\ failedAsserts = out.before.bad
        /\ out.calls = 2 => out.keys = out.last

\* getFront has been called twice on a node with an indicator below it
C7_Witness ==
    /\ out.op = "getFront"
    /\ out.calls = 2
    /\ \E i \in 1..Len(out.keys) : out.keys[i].n # Null
    /\ \E i \in 1..Len(out.keys) : out.keys[i].k # 0

\* the tree T with the children of the Q-node x in reversed order: its two
\* endmost children exchanged, the sibling links as they are
reversedChildren(T, x) ==
    [T EXCEPT !.h[x].leftEndmost = T.h[x].rightEndmost,
              !.h[x].rightEndmost = T.h[x].leftEndmost]

\* what ReplaceRoot returns when the last Reduction and ReplaceRoot are
\* applied to the tree with the children of x reversed
reversedRun(x) ==
    ReplaceRoot(Reduction(reversedChildren(pre, x), out.reduced).T, out.keys, out.v)

\* the leaf keys below the nodes cs, node by node, each as a scan returns it
RECURSIVE frontierOf(_, _)
frontierOf(h, cs) ==
    IF cs = <<>> THEN <<>>
    ELSE entryKeys(getFrontLoop(h, <<Head(cs)>>, <<>>)) \o frontierOf(h, Tail(cs))

\* the vertices of the indicators among the children of x, an endmost child
\* aside if inner is asked for
indicatorsOf(h, x, inner) ==
    {h[c].v : c \in {d \in Range(children(h, x)) :
                        /\ h[d].ind
                        /\ inner => d \notin {h[x].leftEndmost, h[x].rightEndmost}}}

\* the Q-nodes of the tree before the last Reduction that were its
\* pertinent root
pertinentQNodes == qNodes(pre.h, pre.root) \cap {out.before.pr}

\* the pertinent root is Full: ReplaceFullRoot scans it as a whole by front
scannedByFront(x) == Status(out.before.h, x) = "Full"

\* the pertinent root is Partial and ReplacePartialRoot scans its full run
scannedAsRun(x) ==
    /\ Status(out.before.h, x) = "Partial"
    /\ out.keys # <<>> \/ x # out.before.root

\* R returns in opposed what out has in nonOpposed and the other way round,
\* for the indicators V
bucketsSwapped(V, R) ==
    /\ V \cap Range(out.opposed) = V \cap Range(R.nonOpposed)
    /\ V \cap Range(out.nonOpposed) = V \cap Range(R.opposed)

\* the frontiers f and g are the children cs scanned from the two ends
frontiersReversed(h, cs, f, g) ==
    /\ {f, g} = {frontierOf(h, cs), frontierOf(h, Rev(cs))}

reversedAgrees(x, R) ==
    IF scannedByFront(x)
    THEN /\ bucketsSwapped(indicatorsOf(pre.h, x, TRUE), R)
         /\ frontiersReversed(pre.h, clientChildren(pre.h, x), out.frontier, R.frontier)
    ELSE scannedAsRun(x) =>
             /\ R.frontier = out.frontier
             /\ R.opposed = out.opposed
             /\ R.nonOpposed = out.nonOpposed

sameCycle(f, g) ==
    /\ Len(f) = Len(g)
    /\ \E s \in 0..Len(f) :
          \/ \A i \in 1..Len(f) : g[i] = f[((i + s - 1) % Len(f)) + 1]
          \/ \A i \in 1..Len(f) : g[i] = f[((s - i + Len(f)) % Len(f)) + 1]

RECURSIVE indicatorVertices(_, _, _)
indicatorVertices(h, keys, flag) ==
    IF keys = <<>> THEN <<>>
    ELSE IF Head(keys).k = 0 /\ h[Head(keys).n].changeDir = flag
    THEN <<h[Head(keys).n].v>> \o indicatorVertices(h, Tail(keys), flag)
    ELSE indicatorVertices(h, Tail(keys), flag)

\* C10: ReplaceRoot splits the scanned node frontier without loss: the leaf
\* keys go to frontier in scan order, the vertex of every indicator entry
\* goes to opposed if its changeDir flag is set and to nonOpposed if not,
\* and the three lists together are as long as the scanned frontier.
C10_FrontierPartition ==
    out.op = "ReplaceRoot" =>
        /\ out.frontier = entryKeys(out.nodeFrontier)
        /\ out.opposed = indicatorVertices(nodes, out.nodeFrontier, TRUE)
        /\ out.nonOpposed = indicatorVertices(nodes, out.nodeFrontier, FALSE)
        /\ Range(out.opposed) \cap Range(out.nonOpposed) = {}
        /\ Len(out.frontier) + Len(out.opposed) + Len(out.nonOpposed)
              = Len(out.nodeFrontier)

\* a scan with leaf keys, an opposed and a nonOpposed indicator was split
C10_Witness ==
    /\ out.op = "ReplaceRoot"
    /\ Len(out.frontier) >= 2
    /\ out.opposed # <<>>
    /\ out.nonOpposed # <<>>
    /\ Len(out.nodeFrontier) = Len(out.frontier) + 2

(***************************************************************************)
(* Replacement of a full pertinent root.                                   *)
(***************************************************************************)
\* the interior node of the tree below root that has x among its children
parentIn(h, root, x) ==
    IF \E p \in treeNodes(h, root) : x \in Range(children(h, p))
    THEN CHOOSE p \in treeNodes(h, root) : x \in Range(children(h, p))
    ELSE Null

indexIn(s, x) == CHOOSE i \in 1..Len(s) : s[i] = x

\* the child that stands at the place of x among the children of p
childAtPlace(p, x) ==
    IF indexIn(children(out.before.h, p), x) <= Len(children(nodes, p))
    THEN children(nodes, p)[indexIn(children(out.before.h, p), x)]
    ELSE Null

\* the node that stands after ReplaceRoot where x stood before it: the root
\* of the tree, or the child at the place of x
successorOf(x) ==
    IF x = out.before.root THEN m_root
    ELSE childAtPlace(parentIn(out.before.h, out.before.root, x), x)

\* r is a P-node whose children are exactly leaves of the keys, one each
isPNodeOverKeys(h, r, keys) ==
    /\ isPNodeOverLeaves(h, r, Len(keys))
    /\ isPermutationOf([i \in 1..Len(keys) |-> h[children(h, r)[i]].key], keys)

\* ReplaceRoot was handed a pertinent root with the given status and has
\* run ReplaceFullRoot or ReplacePartialRoot on it
replaced(status) ==
    /\ out.op = "ReplaceRoot"
    /\ Status(out.before.h, out.before.pr) = status
    /\ ~(out.keys = <<>> /\ out.before.pr = out.before.root)

\* r has taken the place of the full node x as the keys of ReplaceRoot ask
replacedBy(x, r) ==
    /\ r # Null
    /\ Len(out.keys) = 0 => r = x /\ nodes[r].type = out.before.h[x].type
    /\ Len(out.keys) = 1 =>
          r \notin DOMAIN out.before.h /\ isLeafWithKey(nodes, r, out.keys[1])
    /\ Len(out.keys) >= 2 =>
          /\ isPNodeOverKeys(nodes, r, out.keys)
          /\ IF Type(out.before.h, x) = "Leaf" THEN r \notin DOMAIN out.before.h
             ELSE r = x

\* C11: ReplaceFullRoot puts a single new leaf in the place of the pertinent
\* root exactly when leafKeys holds one key, and one P-node whose children
\* are exactly the new leaves exactly when it holds two or more; with no key
\* the pertinent root stays.  This for a full pertinent root, whether or not
\* it is the root of the tree, and for the last full child of a partial one.
C11_ReplaceFullRootShape ==
    /\ replaced("Full") => replacedBy(out.before.pr, successorOf(out.before.pr))
    /\ replaced("Partial") =>
          \E x \in Range(out.before.h[out.before.pr].fullChildren) :
              /\ \E r \in Range(children(nodes, out.before.pr)) : replacedBy(x, r)
              /\ \A y \in Range(out.before.h[out.before.pr].fullChildren) \ {x} :
                     y \notin Range(children(nodes, out.before.pr))

(***************************************************************************)
(* The root of the tree after a replacement.                               *)
(***************************************************************************)
\* C12: after ReplaceRoot with a non-empty leafKeys and the following
\* emptyAllPertinentNodes the root pointer designates a live node without a
\* parent, the tree below it is consistent and holds every new leaf, and
\* when the pertinent root was the root of the tree (a leaf, a P-node or a
\* Q-node) and full, the root pointer designates the node that replaced it.
C12_RootAfterReplace ==
    (out.op = "emptyAllPertinentNodes" /\ out.keys # <<>>) =>
        /\ m_root # Null
        /\ m_root \notin freed
        /\ consistent(nodes, freed, m_root)
        /\ newLeaves \subseteq treeLeaves(nodes, m_root)
        /\ (/\ out.before.pr = out.before.root
            /\ Status(out.before.h, out.before.pr) = "Full") =>
               replacedBy(out.before.pr, m_root)

(***************************************************************************)
(* The cached child count.                                                 *)
(***************************************************************************)
\* the P-nodes and Q-nodes of the tree below root
interiorNodes(h, root) ==
    {x \in treeNodes(h, root) : ~h[x].ind /\ h[x].type \in {"PNode", "QNode"}}

\* C13: after every completed ReplaceRoot, of a full or of a partial
\* pertinent root, and the following emptyAllPertinentNodes, the childCount
\* of every interior node of the tree is the number of its children that
\* are not indicators.
C13_ChildCountCached ==
    out.op = "emptyAllPertinentNodes" =>
        \A x \in interiorNodes(nodes, m_root) :
            nodes[x].childCount = Len(clientChildren(nodes, x))

(***************************************************************************)
(* Freed nodes and the links of the tree.                                  *)
(***************************************************************************)
\* the nodes that the last ReplaceRoot and the sweep after it have freed
sweptNodes == freed \ out.before.fr

\* the nodes that x names as sibling, parent, endmost or reference child
linksOf(h, x) ==
    {h[x].sibLeft, h[x].sibRight, h[x].parent, h[x].leftEndmost,
     h[x].rightEndmost, h[x].referenceChild} \ {Null}

\* C14: every node freed as a consequence of ReplaceRoot and
\* emptyAllPertinentNodes was unlinked first: afterwards no live node of the
\* tree has a sibling, parent, endmost or reference-child link to a node
\* that was freed.
C14_FreedNodesUnlinked ==
    out.op = "emptyAllPertinentNodes" =>
        \A x \in treeNodes(nodes, m_root) \ freed :
            linksOf(nodes, x) \cap sweptNodes = {}

(***************************************************************************)
(* The direction of an indicator.  An indicator is created behind the run  *)
(* it stands for: its left sibling pointer leads back into the run, its    *)
(* right sibling pointer on to the far side (lines 185-190).  A scan       *)
(* traverses it as it was created when it passes the left sibling first    *)
(* and the right sibling last, and opposite to that otherwise.             *)
(***************************************************************************)
\* the indicators whose key the last ReplaceRoot has returned
scannedIndicators ==
    {out.nodeFrontier[j].n : j \in 1..Len(out.nodeFrontier)} \ {Null}

\* the indicators the last ReplaceRoot has allocated
newIndicators == {x \in DOMAIN nodes \ DOMAIN out.before.h : nodes[x].ind}

\* the places in the scanned list of the entries that come from below y
entryPlaces(y) ==
    {j \in 1..Len(out.nodeFrontier) :
        IF out.before.h[y].ind THEN out.nodeFrontier[j].n = y
        ELSE out.nodeFrontier[j].k \in leafKeysOf(out.before.h, y)}

\* the scan of the run of a partial root passes y before (after) i
passedBefore(y, i) == \E j \in entryPlaces(y) : \A k \in entryPlaces(i) : j < k

passedAfter(y, i) == \E j \in entryPlaces(y) : \A k \in entryPlaces(i) : j > k

\* front hands back the children cs of a full node from the left endmost
\* child to the right endmost one: y is passed before i when it stands
\* left of it
standsLeft(cs, y, i) ==
    \E a, b \in 1..Len(cs) : cs[a] = y /\ cs[b] = i /\ a < b

\* i, a child of q, was scanned by the loop of ReplacePartialRoot
scannedInRun(q) ==
    /\ q = out.before.pr
    /\ Status(out.before.h, q) = "Partial"
    /\ ~(out.keys = <<>> /\ out.before.pr = out.before.root)

\* the last ReplaceRoot has traversed the indicator i, a child of q with the
\* siblings l and r, opposite to the orientation it was created with
traversedOpposite(i, q, l, r) ==
    IF scannedInRun(q)
    THEN \/ l # Null /\ passedAfter(l, i)
         \/ r # Null /\ passedBefore(r, i)
    ELSE \/ l # Null /\ standsLeft(children(out.before.h, q), i, l)
         \/ r # Null /\ standsLeft(children(out.before.h, q), r, i)

\* C15: the changeDir flag of an indicator is false at its creation, and
\* after a scan by front or by ReplacePartialRoot it is true exactly when
\* the scan has traversed the indicator opposite to the orientation it was
\* created with; this for every indicator of the scanned ring, among them
\* one that is the first, endmost, child the scan visits.
C15_ChangeDirTracksOrientation ==
    out.op = "ReplaceRoot" =>
        /\ \A i \in newIndicators : ~nodes[i].changeDir
        /\ \A i \in scannedIndicators :
              /\ ~out.before.h[i].changeDir
              /\ nodes[i].changeDir =
                    traversedOpposite(i,
                        parentIn(out.before.h, out.before.root, i),
                        out.before.h[i].sibLeft, out.before.h[i].sibRight)

\* a scan by front has met an indicator as the first, right endmost, child
\* of a Q-node and left its flag unset, and has set the flag of another
C15_Witness ==
    /\ out.op = "ReplaceRoot"
    /\ \E i \in scannedIndicators :
          /\ ~nodes[i].changeDir
          /\ ~scannedInRun(parentIn(out.before.h, out.before.root, i))
          /\ out.before.h[parentIn(out.before.h, out.before.root, i)].rightEndmost = i
    /\ \E j \in scannedIndicators : nodes[j].changeDir

(***************************************************************************)
(* What a scan schedules for destruction.                                  *)
(***************************************************************************)
\* how often x is an element of the sequence s
occurrences(s, x) == Cardinality({j \in 1..Len(s) : s[j] = x})

\* the full nodes of the tree the last ReplaceRoot was called on, which are
\* the nodes front visits below a full node
fullNodesBefore ==
    {x \in treeNodes(out.before.h, out.before.root) :
        ~out.before.h[x].ind /\ Status(out.before.h, x) = "Full"}

\* C16: after a scan by front every full node and every indicator it has
\* visited is scheduled for destruction, once, on the pertinent-node list;
\* after the following emptyAllPertinentNodes every indicator whose key the
\* scan returned has been freed, exactly once, and is no longer part of the
\* tree, and every full node but a pertinent root that was kept is freed.
C16_ScannedIndicatorsFreed ==
    /\ out.op = "ReplaceRoot" =>
          /\ \A i \in scannedIndicators :
                 /\ occurrences(m_pertinentNodes, i) = 1
                 /\ occurrences(out.nodeFrontier, IndEntry(i)) = 1
          /\ \A x \in fullNodesBefore : occurrences(m_pertinentNodes, x) = 1
    /\ out.op = "emptyAllPertinentNodes" =>
          /\ scannedIndicators \subseteq freed
          /\ "useAfterFree" \notin failedAsserts
          /\ fullNodesBefore \ {out.before.pr} \subseteq freed
          /\ scannedIndicators \cap treeNodes(nodes, m_root) = {}

(***************************************************************************)
(* Hypergraph (Hypergraph.cpp).                                            *)
(*                                                                         *)
(* A hypergraph value H holds the members of the class and the heap of     *)
(* its elements:                                                           *)
(*   node : hypernode address -> [index, type, degree, adj, hypergraph]    *)
(*   edge : hyperedge address -> [index, cardinality, adj, hypergraph]     *)
(*   adj  : adjacency entry address -> [element, twin]                     *)
(* m_hypernodes, m_hyperedges and the adj fields are GraphLists, modelled  *)
(* as lists of addresses.  `log' is what one registered observer saw in    *)
(* the running operation, each event with the value of consistency() at    *)
(* that moment; `bad' collects failed OGDF_ASSERTs; `undefined' is set     *)
(* when an operation reads a deleted element.  The registered arrays       *)
(* (keyAdded, keyRemoved, resizeArrays) hold no state of the hypergraph.   *)
(***************************************************************************)
MaxHypernodes == 2    \* most hypernodes alive at a time
MaxHyperedges == 1    \* most hyperedges alive at a time
MaxIndex == 1         \* largest explicit index, largest id counter used
MaxCardinality == 3   \* longest hypernode list handed to newHyperedge

\* The address of the Hypergraph object itself
This == 1

HypernodeTypes == {"normal", "dummy"}

EmptyHypergraph ==
    [m_nHypernodes |-> 0, m_nHyperedges |-> 0,
     m_hypernodeIdCount |-> 0, m_hyperedgeIdCount |-> 0,
     m_hypernodes |-> <<>>, m_hyperedges |-> <<>>,
     node |-> <<>>, edge |-> <<>>, adj |-> <<>>,
     log |-> <<>>, bad |-> {}, undefined |-> FALSE, ret |-> Null]

\* operator new: the lowest address no live element occupies
allocated(H) == {This} \cup DOMAIN H.node \cup DOMAIN H.edge \cup DOMAIN H.adj

newAddress(H) ==
    CHOOSE a \in 2..(Cardinality(allocated(H)) + 2) :
        /\ a \notin allocated(H)
        /\ \A b \in 2..(a - 1) : b \in allocated(H)

\* operator delete on an element of heap f
release(f, a) == [x \in DOMAIN f \ {a} |-> f[x]]

\* GraphList::del(x) without the delete, and GraphElement::succ()
unlinked(list, x) == SelectSeq(list, LAMBDA y : y # x)

succIn(list, x) ==
    IF \E i \in 1..(Len(list) - 1) : list[i] = x
    THEN list[(CHOOSE i \in 1..(Len(list) - 1) : list[i] = x) + 1]
    ELSE Null

\* Hypergraph::consistency
consistency(H) ==
    /\ H.m_nHypernodes = Len(H.m_hypernodes)
    /\ H.m_nHyperedges = Len(H.m_hyperedges)
    /\ H.m_nHypernodes <= H.m_hypernodeIdCount
    /\ H.m_nHyperedges <= H.m_hyperedgeIdCount
    /\ \A v \in Range(H.m_hypernodes) :
          /\ H.node[v].hypergraph = This
          /\ Len(H.node[v].adj) = H.node[v].degree
          /\ \A a \in Range(H.node[v].adj) :
                H.adj[H.adj[a].twin].element = v
    /\ \A e \in Range(H.m_hyperedges) :
          /\ H.edge[e].hypergraph = This
          /\ Len(H.edge[e].adj) = H.edge[e].cardinality
          /\ \A a \in Range(H.edge[e].adj) :
                H.adj[H.adj[a].twin].element = e
          /\ H.edge[e].cardinality >= 2

\* for (HypergraphObserver* obs : getObservers()) obs->ev(x)
notify(H, ev, x) ==
    [H EXCEPT !.log = Append(@, [ev |-> ev, x |-> x,
                                 consistent |-> consistency(H)])]

\* OGDF_ASSERT(cond)
hgAssert(H, cond, name) ==
    IF cond THEN H ELSE [H EXCEPT !.bad = @ \cup {name}]

\* new HypernodeElement(pIndex), new HyperedgeElement(pIndex),
\* new AdjHypergraphElement(x)
HypernodeElement(pIndex) ==
    [index |-> pIndex, type |-> "normal", degree |-> 0, adj |-> <<>>,
     hypergraph |-> Null]

HyperedgeElement(pIndex) ==
    [index |-> pIndex, cardinality |-> 0, adj |-> <<>>, hypergraph |-> Null]

AdjHypergraphElement(x) == [element |-> x, twin |-> Null]

\* the id counter set from the index given, whatever it was before
linkHypernode_setsCounter(H, pIndex, v) ==
    notify([H EXCEPT
               !.m_nHypernodes = @ + 1,
               !.node = @ @@ (v :> [HypernodeElement(pIndex)
                                       EXCEPT !.hypergraph = This]),
               !.m_hypernodeIdCount = pIndex + 1,
               !.m_hypernodes = Append(@, v),
               !.ret = v],
           "hypernodeAdded", v)

\* Hypergraph::newHypernode(int pIndex), with v the address of the new node
linkHypernode(H, pIndex, v) ==
    notify([H EXCEPT
               !.m_nHypernodes = @ + 1,
               !.node = @ @@ (v :> [HypernodeElement(pIndex)
                                       EXCEPT !.hypergraph = This]),
               !.m_hypernodeIdCount = IF @ <= pIndex THEN pIndex + 1 ELSE @,
               !.m_hypernodes = Append(@, v),
               !.ret = v],
           "hypernodeAdded", v)

newHypernode(H, pIndex) == linkHypernode(H, pIndex, newAddress(H))

\* Hypergraph::newHypernode()
newHypernodeNext(H) == newHypernode(H, H.m_hypernodeIdCount)

\* v->m_type = pType
setType(H, pType) == [H EXCEPT !.node[H.ret].type = pType]

\* Hypergraph::newHypernode(HypernodeElement::Type pType)
newHypernodeOfType(H, pType) == setType(newHypernodeNext(H), pType)

\* Hypergraph::newHypernode(int pIndex, HypernodeElement::Type pType)
newHypernodeIndexed(H, pIndex, pType) == setType(newHypernode(H, pIndex), pType)

\* Hypergraph::newHyperedge, one round of its adjacency loop: v joins e
\* through the twin entries adjE (in e's list) and adjV (in v's list)
joinEntries(H, e, v, adjE, adjV) ==
    [H EXCEPT
        !.adj = @ @@ (adjE :> [AdjHypergraphElement(v) EXCEPT !.twin = adjV])
                  @@ (adjV :> [AdjHypergraphElement(e) EXCEPT !.twin = adjE]),
        !.edge[e].adj = Append(@, adjE),
        !.node[v].adj = Append(@, adjV),
        !.node[v].degree = @ + 1,
        !.edge[e].cardinality = @ + 1]

joinHypernode(H, e, v, adjE) ==
    joinEntries(H, e, v, adjE,
                newAddress([H EXCEPT !.adj = @ @@ (adjE :> Null)]))

RECURSIVE joinHypernodes(_, _, _)
joinHypernodes(H, e, pHypernodes) ==
    IF pHypernodes = <<>> THEN H
    ELSE joinHypernodes(joinHypernode(H, e, Head(pHypernodes), newAddress(H)),
                        e, Tail(pHypernodes))

\* Hypergraph::newHyperedge(int pIndex, List<hypernode>&), with e the
\* address of the new hyperedge
linkHyperedge(H, pIndex, e) ==
    notify([H EXCEPT
               !.m_nHyperedges = @ + 1,
               !.edge = @ @@ (e :> [HyperedgeElement(pIndex)
                                       EXCEPT !.hypergraph = This]),
               !.m_hyperedges = Append(@, e),
               !.m_hyperedgeIdCount = IF @ <= pIndex THEN pIndex + 1 ELSE @,
               !.ret = e],
           "hyperedgeAdded", e)

assertHypernodes(H, pHypernodes) ==
    hgAssert(hgAssert(H, Len(pHypernodes) > 1, "pHypernodes.size() > 1"),
             \A v \in Range(pHypernodes) :
                 v \in DOMAIN H.node /\ H.node[v].hypergraph = This,
             "(*it)->hypergraph() == this")

newHyperedge(H, pIndex, pHypernodes) ==
    joinHypernodes(linkHyperedge(assertHypernodes(H, pHypernodes), pIndex,
                                 newAddress(H)),
                   newAddress(H), pHypernodes)

\* Hypergraph::newHyperedge(List<hypernode>&)
newHyperedgeNext(H, pHypernodes) ==
    newHyperedge(H, H.m_hyperedgeIdCount, pHypernodes)

\* Hypergraph::delHyperedge, one round of its loop: entry adj of e goes
\* together with its twin in the list of its hypernode
dropEntry(H, e, adj, n) ==
    [H EXCEPT
        !.node[n].degree = @ - 1,
        !.node[n].adj = unlinked(@, H.adj[adj].twin),
        !.edge[e].adj = unlinked(@, adj),
        !.adj = release(release(@, H.adj[adj].twin), adj),
        !.edge[e].cardinality = @ - 1]

\* safeForEach(e->m_adjHypernodes, ...): the iterator has moved on to the
\* successor of `it' before entry `it' is dropped
RECURSIVE dropEntries(_, _, _)
dropEntries(H, e, it) ==
    IF it = Null THEN H
    ELSE dropEntries(dropEntry(H, e, it, H.adj[it].element), e,
                     succIn(H.edge[e].adj, it))

\* --m_nHyperedges; m_hyperedges.del(e)
unlinkHyperedge(H, e) ==
    [H EXCEPT !.m_nHyperedges = @ - 1,
              !.m_hyperedges = unlinked(@, e),
              !.edge = release(@, e)]

assertNoCardinality(H, e) ==
    hgAssert(H, H.edge[e].cardinality = 0, "e->m_cardinality == 0")

\* Hypergraph::delHyperedge
delHyperedge(H, e) ==
    IF e = Null THEN hgAssert(H, FALSE, "e != nullptr")
    ELSE unlinkHyperedge(
             assertNoCardinality(
                 dropEntries(notify(H, "hyperedgeDeleted", e), e,
                             IF H.edge[e].adj = <<>> THEN Null
                             ELSE Head(H.edge[e].adj)), e), e)

\* Hypergraph::delHypernode, one round of its loop: v leaves hyperedge e,
\* and e goes when fewer than two hypernodes stay on it
leaveEntry(H, v, adj, e) ==
    [H EXCEPT
        !.edge[e].adj = unlinked(@, H.adj[adj].twin),
        !.node[v].adj = unlinked(@, adj),
        !.adj = release(release(@, H.adj[adj].twin), adj),
        !.edge[e].cardinality = @ - 1]

cascade(H, e) ==
    IF H.edge[e].cardinality < 2 THEN delHyperedge(H, e) ELSE H

lowerDegree(H, v) ==
    IF H.undefined THEN H ELSE [H EXCEPT !.node[v].degree = @ - 1]

leaveHyperedge(H, v, adj, e) ==
    lowerDegree(cascade(leaveEntry(H, v, adj, e), e), v)

\* safeForEach(v->m_adjHyperedges, ...): the iterator has moved on to `it'
\* before the entry in front of it is handled; an entry the cascade has
\* deleted meanwhile is read after its deletion
RECURSIVE leaveHyperedges(_, _, _)
leaveHyperedges(H, v, it) ==
    IF H.undefined \/ it = Null THEN H
    ELSE IF it \notin DOMAIN H.adj THEN [H EXCEPT !.undefined = TRUE]
    ELSE leaveHyperedges(leaveHyperedge(H, v, it, H.adj[it].element), v,
                         succIn(H.node[v].adj, it))

\* --m_nHypernodes; m_hypernodes.del(v)
unlinkHypernode(H, v) ==
    [H EXCEPT !.m_nHypernodes = @ - 1,
              !.m_hypernodes = unlinked(@, v),
              !.node = release(@, v)]

removeHypernode(H, v) ==
    IF H.undefined THEN H
    ELSE unlinkHypernode(
             notify(hgAssert(H, H.node[v].degree = 0, "v->m_degree == 0"),
                    "hypernodeDeleted", v), v)

\* Hypergraph::delHypernode
delHypernode(H, v) ==
    IF v = Null THEN hgAssert(H, FALSE, "v != nullptr")
    ELSE removeHypernode(
             leaveHyperedges(H, v, IF H.node[v].adj = <<>> THEN Null
                                   ELSE Head(H.node[v].adj)), v)

\* Hypergraph::clear
clear(H) ==
    [notify(H, "cleared", Null) EXCEPT
        !.node = <<>>, !.edge = <<>>, !.adj = <<>>,
        !.m_hypernodes = <<>>, !.m_hyperedges = <<>>,
        !.m_nHypernodes = 0, !.m_nHyperedges = 0,
        !.m_hypernodeIdCount = 0, !.m_hyperedgeIdCount = 0]

(***************************************************************************)
(* The Hypergraph as a state machine: a client calls the operations in     *)
(* any order, each on the elements alive at that moment.  An operation     *)
(* starts with an empty observer log.  Once an operation has read a        *)
(* deleted element nothing is known of the object any more: the only       *)
(* step left is a consistency() call that may answer either way.           *)
(***************************************************************************)
hgCall(op, H) ==
    /\ hg' = H
    /\ hgOut' = [op |-> op, ret |-> H.ret]

hgFresh == [hg EXCEPT !.log = <<>>, !.ret = Null]

hgUsable == ~hg.undefined /\ hg.bad = {}

\* The lists of live hypernodes newHyperedge accepts
hypernodeLists ==
    UNION {[1..n -> Range(hg.m_hypernodes)] : n \in 2..MaxCardinality}

pqIdle ==
    /\ nodes = EmptyTree.h
    /\ m_root = EmptyTree.root
    /\ m_pertinentRoot = EmptyTree.pr
    /\ m_pertinentNodes = EmptyTree.pn
    /\ m_identificationNumber = EmptyTree.id
    /\ freed = EmptyTree.fr
    /\ failedAsserts = EmptyTree.bad
    /\ phase = "new"
    /\ out = [op |-> "none"]
    /\ pre = EmptyTree
    /\ script = <<>>
    /\ rounds = 0

pqVars == <<nodes, m_root, m_pertinentRoot, m_pertinentNodes,
            m_identificationNumber, freed, failedAsserts, phase, out, pre,
            script, rounds>>

HgInit ==
    /\ pqIdle
    /\ hg = EmptyHypergraph
    /\ hgOut = [op |-> "none"]
    /\ finder = Null
    /\ planRep = Null

DoNewHypernode ==
    /\ hgUsable
    /\ hg.m_nHypernodes < MaxHypernodes
    /\ \E pIndex \in 0..MaxIndex :
          hgCall("newHypernode(pIndex)", newHypernode(hgFresh, pIndex))
    /\ UNCHANGED <<pqVars, finder, planRep>>

DoNewHypernodeNext ==
    /\ hgUsable
    /\ hg.m_nHypernodes < MaxHypernodes
    /\ hg.m_hypernodeIdCount <= MaxIndex
    /\ hgCall("newHypernode()", newHypernodeNext(hgFresh))
    /\ UNCHANGED <<pqVars, finder, planRep>>

DoNewHypernodeOfType ==
    /\ hgUsable
    /\ hg.m_nHypernodes < MaxHypernodes
    /\ hg.m_hypernodeIdCount <= MaxIndex
    /\ \E pType \in HypernodeTypes :
          hgCall("newHypernode(pType)", newHypernodeOfType(hgFresh, pType))
    /\ UNCHANGED <<pqVars, finder, planRep>>

DoNewHypernodeIndexed ==
    /\ hgUsable
    /\ hg.m_nHypernodes < MaxHypernodes
    /\ \E pIndex \in 0..MaxIndex, pType \in HypernodeTypes :
          hgCall("newHypernode(pIndex, pType)",
                 newHypernodeIndexed(hgFresh, pIndex, pType))
    /\ UNCHANGED <<pqVars, finder, planRep>>

DoNewHyperedge ==
    /\ hgUsable
    /\ hg.m_nHyperedges < MaxHyperedges
    /\ \E pIndex \in 0..MaxIndex, pHypernodes \in hypernodeLists :
          hgCall("newHyperedge(pIndex, pHypernodes)",
                 newHyperedge(hgFresh, pIndex, pHypernodes))
    /\ UNCHANGED <<pqVars, finder, planRep>>

DoNewHyperedgeNext ==
    /\ hgUsable
    /\ hg.m_nHyperedges < MaxHyperedges
    /\ hg.m_hyperedgeIdCount <= MaxIndex
    /\ \E pHypernodes \in hypernodeLists :
          hgCall("newHyperedge(pHypernodes)",
                 newHyperedgeNext(hgFresh, pHypernodes))
    /\ UNCHANGED <<pqVars, finder, planRep>>

DoDelHypernode ==
    /\ hgUsable
    /\ \E v \in Range(hg.m_hypernodes) :
          hgCall("delHypernode", delHypernode(hgFresh, v))
    /\ UNCHANGED <<pqVars, finder, planRep>>

DoDelHyperedge ==
    /\ hgUsable
    /\ \E e \in Range(hg.m_hyperedges) :
          hgCall("delHyperedge", delHyperedge(hgFresh, e))
    /\ UNCHANGED <<pqVars, finder, planRep>>

DoClear ==
    /\ hgUsable
    /\ hgCall("clear", clear(hgFresh))
    /\ UNCHANGED <<pqVars, finder, planRep>>

DoConsistency ==
    /\ hgOut.op # "consistency"
    /\ hgOut' \in {[op |-> "consistency", ret |-> b] :
                      b \in IF hg.undefined THEN BOOLEAN
                            ELSE {consistency(hg)}}
    /\ UNCHANGED <<hg, pqVars, finder, planRep>>

HgNext ==
    \/ DoNewHypernode
    \/ DoNewHypernodeNext
    \/ DoNewHypernodeOfType
    \/ DoNewHypernodeIndexed
    \/ DoNewHyperedge
    \/ DoNewHyperedgeNext
    \/ DoDelHypernode
    \/ DoDelHyperedge
    \/ DoClear
    \/ DoConsistency

HgSpec == HgInit /\ [][HgNext]_vars

(***************************************************************************)
(* C17: after any sequence of newHypernode (all overloads), newHyperedge,  *)
(* delHypernode, delHyperedge and clear, consistency() returns true.       *)
(***************************************************************************)
C17_ConsistencyHolds ==
    hgOut.op = "consistency" => hgOut.ret

(***************************************************************************)
(* NearestRectangleFinder (part_001, lines 63-303).                        *)
(*                                                                         *)
(* A rectangle is [m_x, m_y, m_width, m_height] (centre and extent), a     *)
(* point is [m_x, m_y]; rectangles and points are numbered from 0 as in    *)
(* the arrays of the code, so element i of an array is place i + 1 of its  *)
(* list.  Coordinates are whole numbers and extents are even, so the       *)
(* halves the code computes in double arithmetic are exact.  An invalid    *)
(* list iterator is Null, a valid one the place it points at.              *)
(***************************************************************************)
MaxRects == 2         \* most rectangles of a query
MaxPoints == 2        \* most points of a query
MaxX == 1             \* largest x-coordinate of a centre or a point
MaxY == 2             \* largest y-coordinate of a centre or a point
MaxExtent == 2        \* largest width or height of a rectangle
MaxDistance == 2      \* largest m_maxAllowedDistance
MaxTolerance == 1     \* largest m_toleranceDistance

\* std::numeric_limits<double>::max(): above every distance and parameter
DoubleMax == MaxX + MaxY + MaxExtent + MaxDistance + MaxTolerance + 1

PairCoordId(coord, index) == [m_coord |-> coord, m_index |-> index]
PairRectDist(index, distance) == [m_index |-> index, m_distance |-> distance]

\* double left .. xDist (lines 140-148, 174-182, 205-213, 266-274)
xDist(rect, p) ==
    IF p.m_x < rect.m_x - rect.m_width \div 2
    THEN (rect.m_x - rect.m_width \div 2) - p.m_x
    ELSE IF rect.m_x + rect.m_width \div 2 < p.m_x
    THEN p.m_x - (rect.m_x + rect.m_width \div 2)
    ELSE 0

\* double bottom .. yDist (lines 277-285)
yDist(rect, p) ==
    IF p.m_y < rect.m_y - rect.m_height \div 2
    THEN (rect.m_y - rect.m_height \div 2) - p.m_y
    ELSE IF rect.m_y + rect.m_height \div 2 < p.m_y
    THEN p.m_y - (rect.m_y + rect.m_height \div 2)
    ELSE 0

\* quicksort by decreasing key: the places of `key' in sorted order (equal
\* keys in the order of their places)
RECURSIVE sortedPlaces(_, _)
sortedPlaces(key, left) ==
    IF left = {} THEN <<>>
    ELSE <<CHOOSE k \in left :
               \A j \in left : \/ key[j] < key[k]
                               \/ key[j] = key[k] /\ k <= j>>
         \o sortedPlaces(key, left \
               {CHOOSE k \in left :
                    \A j \in left : \/ key[j] < key[k]
                                    \/ key[j] = key[k] /\ k <= j})

quicksort(key) == sortedPlaces(key, DOMAIN key)

\* listTop and listBottom (lines 72-82), sortedPoints (lines 85-91)
listTop(region) ==
    [k \in 1..Len(region) |->
        PairCoordId(
            region[quicksort([i \in 1..Len(region) |->
                region[i].m_y + region[i].m_height \div 2])[k]].m_y
            + region[quicksort([i \in 1..Len(region) |->
                region[i].m_y + region[i].m_height \div 2])[k]].m_height \div 2,
            quicksort([i \in 1..Len(region) |->
                region[i].m_y + region[i].m_height \div 2])[k] - 1)]

listBottom(region) ==
    [k \in 1..Len(region) |->
        PairCoordId(
            region[quicksort([i \in 1..Len(region) |->
                region[i].m_y - region[i].m_height \div 2])[k]].m_y
            - region[quicksort([i \in 1..Len(region) |->
                region[i].m_y - region[i].m_height \div 2])[k]].m_height \div 2,
            quicksort([i \in 1..Len(region) |->
                region[i].m_y - region[i].m_height \div 2])[k] - 1)]

sortedPoints(point) ==
    [k \in 1..Len(point) |->
        quicksort([i \in 1..Len(point) |-> point[i].m_y])[k] - 1]

\* The state of the sweep: S.nextTop and S.nextBottom are places in listTop
\* and listBottom (Len + 1 past the end), S.active the list of active
\* rectangles, S.visitedRectangles and S.distance the buffers, S.minDist,
\* S.itTop and S.itBottom the locals of one point, S.nearest the result.
\* C holds what the sweep reads: region, point, listTop, listBottom and the
\* two parameters.

\* while (nextTop.valid() && (*nextTop).m_coord >= p.m_y) (lines 122-126)
RECURSIVE pushTops(_, _, _)
pushTops(C, S, p) ==
    IF S.nextTop <= Len(C.listTop) /\ C.listTop[S.nextTop].m_coord >= p.m_y
    THEN pushTops(C, [S EXCEPT
                         !.active = Append(@, C.listTop[S.nextTop].m_index),
                         !.nextTop = @ + 1], p)
    ELSE S

\* while (nextBottom.valid() && (*nextBottom).m_coord > p.m_y) (lines 128-131)
RECURSIVE delBottoms(_, _, _)
delBottoms(C, S, p) ==
    IF /\ S.nextBottom <= Len(C.listBottom)
       /\ C.listBottom[S.nextBottom].m_coord > p.m_y
    THEN delBottoms(C, [S EXCEPT
                           !.active = SelectSeq(@, LAMBDA j :
                               j # C.listBottom[S.nextBottom].m_index),
                           !.nextBottom = @ + 1], p)
    ELSE S

\* if (dist < minDist) minDist = dist; visitedRectangles.push(index);
\* distance[index] = dist
visit(S, index, dist) ==
    [S EXCEPT !.minDist = IF dist < @ THEN dist ELSE @,
              !.visitedRectangles = Append(@, index),
              !.distance[index] = dist]

\* for (int j : active) (lines 138-156)
RECURSIVE visitActive(_, _, _, _)
visitActive(C, S, p, rest) ==
    IF rest = <<>> THEN S
    ELSE visitActive(C, visit(S, Head(rest),
                              xDist(C.region[Head(rest) + 1], p)),
                     p, Tail(rest))

\* if (itTop.valid()) (lines 168-197)
visitTop(C, S, p) ==
    IF S.itTop = Null THEN S
    ELSE IF C.listTop[S.itTop].m_coord < p.m_y - S.minDist
    THEN [S EXCEPT !.itTop = Null]
    ELSE [visit(S, C.listTop[S.itTop].m_index,
                xDist(C.region[C.listTop[S.itTop].m_index + 1], p)
                + (p.m_y - C.listTop[S.itTop].m_coord))
             EXCEPT !.itTop = IF @ < Len(C.listTop) THEN @ + 1 ELSE Null]

\* if (itBottom.valid()) (lines 199-228)
visitBottom(C, S, p) ==
    IF S.itBottom = Null THEN S
    ELSE IF C.listBottom[S.itBottom].m_coord > p.m_y + S.minDist
    THEN [S EXCEPT !.itBottom = Null]
    ELSE [visit(S, C.listBottom[S.itBottom].m_index,
                xDist(C.region[C.listBottom[S.itBottom].m_index + 1], p)
                + (C.listBottom[S.itBottom].m_coord - p.m_y))
             EXCEPT !.itBottom = @ - 1]

\* while (itTop.valid() || itBottom.valid()) (lines 167-229)
RECURSIVE visitAround(_, _, _)
visitAround(C, S, p) ==
    IF S.itTop = Null /\ S.itBottom = Null THEN S
    ELSE visitAround(C, visitBottom(C, visitTop(C, S, p), p), p)

\* while (!visitedRectangles.empty()) (lines 240-245): popRet takes the
\* rectangle visited last
RECURSIVE popVisited(_, _, _, _)
popVisited(S, visited, max, list) ==
    IF visited = <<>> THEN list
    ELSE popVisited(S, SubSeq(visited, 1, Len(visited) - 1), max,
             IF S.distance[visited[Len(visited)]] <= max
             THEN Append(list, PairRectDist(visited[Len(visited)],
                                   S.distance[visited[Len(visited)]]))
             ELSE list)

\* lines 231-246
collect(C, S, nextPoint) ==
    IF S.minDist > C.m_maxAllowedDistance
    THEN [S EXCEPT !.visitedRectangles = <<>>]
    ELSE [S EXCEPT !.visitedRectangles = <<>>,
                   !.nearest[nextPoint + 1] =
                       popVisited(S, S.visitedRectangles,
                                  S.minDist + C.m_toleranceDistance, @)]

\* lines 134-229: the locals of one point, the active rectangles and the
\* walk away from the point in both directions
aroundPoint(C, S, p) ==
    visitAround(C,
        visitActive(C,
            [S EXCEPT
                !.minDist = C.m_maxAllowedDistance + C.m_toleranceDistance,
                !.itTop = IF S.nextTop <= Len(C.listTop) THEN S.nextTop
                          ELSE Null,
                !.itBottom = S.nextBottom - 1],
            p, S.active),
        p)

\* one round of the loop over the points (lines 117-247)
findPoint(C, S, nextPoint) ==
    collect(C,
            aroundPoint(C,
                delBottoms(C, pushTops(C, S, C.point[nextPoint + 1]),
                           C.point[nextPoint + 1]),
                C.point[nextPoint + 1]),
            nextPoint)

RECURSIVE findPoints(_, _, _)
findPoints(C, S, points) ==
    IF points = <<>> THEN S
    ELSE findPoints(C, findPoint(C, S, Head(points)), Tail(points))

\* NearestRectangleFinder::find
find(F, region, point, nearest) ==
    findPoints([region |-> region, point |-> point,
                listTop |-> listTop(region), listBottom |-> listBottom(region),
                m_maxAllowedDistance |-> F.m_maxAllowedDistance,
                m_toleranceDistance |-> F.m_toleranceDistance],
               [nextTop |-> 1, nextBottom |-> 1, active |-> <<>>,
                visitedRectangles |-> <<>>,
                distance |-> [j \in 0..(Len(region) - 1) |-> 0],
                minDist |-> 0, itTop |-> Null, itBottom |-> Null,
                nearest |-> nearest],
               sortedPoints(point)).nearest

\* NearestRectangleFinder::findSimple, the loop over the rectangles
\* (lines 263-292): M is [minDist, minDistIndex]
RECURSIVE nearestFrom(_, _, _, _)
nearestFrom(region, p, j, M) ==
    IF j >= Len(region) THEN M
    ELSE nearestFrom(region, p, j + 1,
             IF xDist(region[j + 1], p) + yDist(region[j + 1], p) < M.minDist
             THEN [minDist |-> xDist(region[j + 1], p) + yDist(region[j + 1], p),
                   minDistIndex |-> j]
             ELSE M)

\* lines 299-301
pushNearest(F, M, list) ==
    IF M.minDist <= F.m_maxAllowedDistance
    THEN Append(list, PairRectDist(M.minDistIndex, M.minDist))
    ELSE list

\* NearestRectangleFinder::findSimple
findSimple(F, region, point, nearest) ==
    [i \in 1..Len(point) |->
        pushNearest(F, nearestFrom(region, point[i], 0,
                                   [minDist |-> DoubleMax, minDistIndex |-> -1]),
                    nearest[i])]

(***************************************************************************)
(* The finder as a state machine: a query (rectangles, points and the two  *)
(* parameters of the finder) is drawn at the start, find or findSimple     *)
(* answers it into lists that are empty before the call.                   *)
(***************************************************************************)
Extents == {e \in 0..MaxExtent : e % 2 = 0}

RectRegions ==
    [m_x : 0..MaxX, m_y : 0..MaxY, m_width : Extents, m_height : Extents]

DPoints == [m_x : 0..MaxX, m_y : 0..MaxY]

finderIdle ==
    /\ hg = Null
    /\ hgOut = Null
    /\ planRep = Null

FinderInit ==
    /\ pqIdle
    /\ finderIdle
    /\ finder \in
          [op : {"none"},
           m_maxAllowedDistance : 0..MaxDistance,
           m_toleranceDistance : 0..MaxTolerance,
           region : UNION {[1..n -> RectRegions] : n \in 0..MaxRects},
           point : UNION {[1..m -> DPoints] : m \in 0..MaxPoints},
           nearest : {<<>>}]

DoFind ==
    /\ finder.op = "none"
    /\ finder' = [finder EXCEPT
                     !.op = "find",
                     !.nearest = find(finder, finder.region, finder.point,
                                      [i \in 1..Len(finder.point) |-> <<>>])]
    /\ UNCHANGED <<pqVars, hgVars, planRep>>

DoFindSimple ==
    /\ finder.op = "none"
    /\ finder' = [finder EXCEPT
                     !.op = "findSimple",
                     !.nearest = findSimple(finder, finder.region, finder.point,
                                      [i \in 1..Len(finder.point) |-> <<>>])]
    /\ UNCHANGED <<pqVars, hgVars, planRep>>

FinderNext ==
    \/ DoFind
    \/ DoFindSimple

FinderSpec == FinderInit /\ [][FinderNext]_vars

(***************************************************************************)
(* C18: for every point whose least L1 distance d to the rectangles is at  *)
(* most maxAllowedDistance, find returns exactly the rectangles at L1      *)
(* distance at most d + toleranceDistance, each paired with its distance;  *)
(* for a point with d above maxAllowedDistance it returns the empty list.  *)
(***************************************************************************)
l1Distance(rect, p) == xDist(rect, p) + yDist(rect, p)

\* The least L1 distance from p to a rectangle of a non-empty region
leastDistance(region, p) ==
    CHOOSE d \in {l1Distance(region[j], p) : j \in 1..Len(region)} :
        \A j \in 1..Len(region) : d <= l1Distance(region[j], p)

hasNear(p) ==
    /\ finder.region # <<>>
    /\ leastDistance(finder.region, p) <= finder.m_maxAllowedDistance

withinTolerance(p) ==
    {PairRectDist(j - 1, l1Distance(finder.region[j], p)) :
        j \in {k \in 1..Len(finder.region) :
                 l1Distance(finder.region[k], p)
                     <= leastDistance(finder.region, p)
                        + finder.m_toleranceDistance}}

C18_FindReturnsNearest ==
    finder.op = "find" =>
        \A i \in 1..Len(finder.point) :
            IF hasNear(finder.point[i])
            THEN /\ Range(finder.nearest[i]) = withinTolerance(finder.point[i])
                 /\ IsInjective(finder.nearest[i])
            ELSE finder.nearest[i] = <<>>

(***************************************************************************)
(* C19: findSimple gives every point exactly one result, a rectangle of    *)
(* least L1 distance with that distance, whatever maxAllowedDistance and   *)
(* toleranceDistance are, when there is a rectangle at all.                *)
(***************************************************************************)
isNearest(q, p) ==
    /\ q.m_index \in 0..(Len(finder.region) - 1)
    /\ q.m_distance = l1Distance(finder.region[q.m_index + 1], p)
    /\ q.m_distance = leastDistance(finder.region, p)

C19_FindSimpleOneResult ==
    (finder.op = "findSimple" /\ finder.region # <<>>) =>
        \A i \in 1..Len(finder.point) :
            /\ Len(finder.nearest[i]) = 1
            /\ isNearest(finder.nearest[i][1], finder.point[i])

(***************************************************************************)
(* PlanRepExpansion (part_001, lines 356-1417).                            *)
(*                                                                         *)
(* The original graph G has the nodes 1..G.n and the edges G.edges, a      *)
(* list of [source, target]; an original edge is its place in that list.   *)
(* A value P holds G, the members of PlanRepExpansion and the copy graph   *)
(* (the Graph the class derives from):                                     *)
(*   nodes, edges     the copy's nodes, and edge -> [source, target]       *)
(*   m_vCopy, m_eCopy original node/edge -> list of copies                 *)
(*   m_vOrig, m_eOrig, m_splittable, m_eNodeSplit  the arrays of the copy  *)
(*   m_nodeSplits     the list of live node splits, m_path their paths     *)
(* A list iterator is modelled by the element it points at.  `failed' is   *)
(* the set of assertions of the last consistencyCheck() that did not hold. *)
(* Graph::split, contract, insert, connectedComponents and isLoopFree      *)
(* belong to the base library.                                             *)
(***************************************************************************)
MaxOrigNodes == 2     \* most nodes of the original graph
MaxOrigEdges == 3     \* most edges of the original graph
MaxCopyNodes == 4     \* most nodes the copy is given in a run
MaxCrossings == 1     \* most crossings of an inserted path

\* Graph: the edges at a node, an edge with both ends at one node twice
degreeIn(edges, v) ==
    Cardinality({e \in DOMAIN edges : edges[e].source = v})
    + Cardinality({e \in DOMAIN edges : edges[e].target = v})

\* connectedComponents(G, component): components are numbered from 0 in
\* the order of their first nodes
RECURSIVE reached(_, _)
reached(G, S) ==
    IF \E e \in DOMAIN G.edges :
           (G.edges[e].source \in S) # (G.edges[e].target \in S)
    THEN reached(G, S \cup UNION {{G.edges[e].source, G.edges[e].target} :
                     e \in {x \in DOMAIN G.edges :
                         {G.edges[x].source, G.edges[x].target} \cap S # {}}})
    ELSE S

firstNodes(G) == {v \in 1..G.n : \A w \in reached(G, {v}) : v <= w}

component(G, v) ==
    Cardinality({f \in firstNodes(G) : \A w \in reached(G, {v}) : f < w})

\* isLoopFree(*this)
isLoopFree(P) == \A e \in DOMAIN P.edges : P.edges[e].source # P.edges[e].target

\* List::insert(x, it, Direction::after), List::del(it)
insertAfter(list, it, x) ==
    IF \E k \in 1..Len(list) : list[k] = it
    THEN SubSeq(list, 1, CHOOSE k \in 1..Len(list) : list[k] = it)
         \o <<x>>
         \o SubSeq(list, (CHOOSE k \in 1..Len(list) : list[k] = it) + 1, Len(list))
    ELSE list

\* The part of a list in front of element it, and the part from it on
before(list, it) ==
    SubSeq(list, 1, (CHOOSE k \in 1..Len(list) : list[k] = it) - 1)

fromOn(list, it) ==
    SubSeq(list, CHOOSE k \in 1..Len(list) : list[k] = it, Len(list))

\* PlanRepExpansion::doInit
doInit(G, splittableNodes) ==
    [G |-> G,
     m_numCC |-> Cardinality(firstNodes(G)),
     m_nodesInCC |-> [c \in 1..Cardinality(firstNodes(G)) |->
                        SetToSeq({v \in 1..G.n : component(G, v) = c - 1})],
     m_currentCC |-> -1,
     m_vCopy |-> [v \in 1..G.n |-> <<>>],
     m_eCopy |-> [e \in DOMAIN G.edges |-> <<>>],
     m_eAuxCopy |-> [e \in DOMAIN G.edges |-> Null],
     m_vOrig |-> <<>>, m_eOrig |-> <<>>,
     m_splittable |-> <<>>, m_eNodeSplit |-> <<>>,
     m_splittableOrig |-> [v \in 1..G.n |->
                             v \in splittableNodes /\ degreeIn(G.edges, v) >= 4],
     m_nodeSplits |-> <<>>, m_path |-> <<>>,
     nodes |-> {}, edges |-> <<>>,
     nodeId |-> 1, edgeId |-> 1, nsId |-> 1,
     op |-> "doInit", ret |-> Null, bad |-> {}, failed |-> {},
     calls |-> <<>>, undefined |-> FALSE]

\* PlanRepExpansion::PlanRepExpansion(const Graph& G)
PlanRepExpansionOf(G) ==
    [doInit(G, {v \in 1..G.n : degreeIn(G.edges, v) >= 4})
        EXCEPT !.op = "PlanRepExpansion(G)"]

\* PlanRepExpansion::PlanRepExpansion(const Graph& G, const List<node>&)
PlanRepExpansionWith(G, splittableNodes) ==
    [doInit(G, splittableNodes)
        EXCEPT !.op = "PlanRepExpansion(G, splittableNodes)"]

\* initCC, lines 411-428: the copies of the originals of component i are
\* forgotten (of an edge at the entry with an odd index, its target's)
clearCopies(P, i) ==
    IF P.m_currentCC >= 0
    THEN [P EXCEPT
             !.m_vCopy = [v \in DOMAIN @ |->
                            IF v \in Range(P.m_nodesInCC[i + 1]) THEN <<>>
                            ELSE @[v]],
             !.m_eCopy = [e \in DOMAIN @ |->
                            IF P.G.edges[e].target \in Range(P.m_nodesInCC[i + 1])
                            THEN <<>> ELSE @[e]]]
    ELSE P

\* Graph: a new node and a new edge of the copy; the arrays of the copy
\* hold their default for them
newNode(P) ==
    [P EXCEPT !.nodes = @ \cup {P.nodeId},
              !.nodeId = @ + 1,
              !.m_vOrig = @ @@ (P.nodeId :> Null),
              !.m_splittable = @ @@ (P.nodeId :> FALSE),
              !.ret = P.nodeId]

newEdge(P, v, w) ==
    [P EXCEPT !.edges = @ @@ (P.edgeId :> [source |-> v, target |-> w]),
              !.edgeId = @ + 1,
              !.m_eOrig = @ @@ (P.edgeId :> Null),
              !.m_eNodeSplit = @ @@ (P.edgeId :> Null),
              !.ret = P.edgeId]

\* insert(m_nodesInCC[i], m_pGraph->edges, vCopy, m_eAuxCopy), lines
\* 432-434: vCopy maps an original node to its new copy
RECURSIVE insertNodes(_, _, _)
insertNodes(P, vCopy, list) ==
    IF list = <<>> THEN [P EXCEPT !.ret = vCopy]
    ELSE insertNodes(newNode(P), vCopy @@ (Head(list) :> P.nodeId), Tail(list))

RECURSIVE insertEdges(_, _, _)
insertEdges(P, vCopy, e) ==
    IF e > Len(P.G.edges) THEN [P EXCEPT !.ret = vCopy]
    ELSE IF P.G.edges[e].source \in DOMAIN vCopy
            /\ P.G.edges[e].target \in DOMAIN vCopy
    THEN insertEdges([newEdge(P, vCopy[P.G.edges[e].source],
                                 vCopy[P.G.edges[e].target])
                         EXCEPT !.m_eAuxCopy[e] = P.edgeId],
                     vCopy, e + 1)
    ELSE insertEdges(P, vCopy, e + 1)

insert(P, list) ==
    insertEdges([insertNodes(P, <<>>, list) EXCEPT
                    !.m_eAuxCopy = [e \in DOMAIN @ |-> Null]],
                insertNodes(P, <<>>, list).ret, 1)

\* initCC, lines 443-449: the copies of the edges that leave vOrig (the
\* entries with an even index)
RECURSIVE linkEdges(_, _, _)
linkEdges(P, vOrig, e) ==
    IF e > Len(P.G.edges) THEN P
    ELSE IF P.G.edges[e].source = vOrig
    THEN linkEdges([P EXCEPT !.m_eCopy[e] = Append(@, P.m_eAuxCopy[e]),
                             !.m_eOrig[P.m_eAuxCopy[e]] = e],
                   vOrig, e + 1)
    ELSE linkEdges(P, vOrig, e + 1)

\* initCC, lines 436-450
RECURSIVE linkCopies(_, _, _)
linkCopies(P, vCopy, list) ==
    IF list = <<>> THEN P
    ELSE linkCopies(
             linkEdges([P EXCEPT
                           !.m_vOrig[vCopy[Head(list)]] = Head(list),
                           !.m_vCopy[Head(list)] = Append(@, vCopy[Head(list)]),
                           !.m_splittable[vCopy[Head(list)]] =
                               P.m_splittableOrig[Head(list)]],
                       Head(list), 1),
             vCopy, Tail(list))

\* PlanRepExpansion::initCC
initCC(P, i) ==
    [linkCopies(insert([clearCopies(P, i) EXCEPT !.m_currentCC = i],
                       P.m_nodesInCC[i + 1]),
                insert([clearCopies(P, i) EXCEPT !.m_currentCC = i],
                       P.m_nodesInCC[i + 1]).ret,
                P.m_nodesInCC[i + 1])
        EXCEPT !.m_nodeSplits = <<>>, !.m_path = <<>>, !.ret = Null]

\* Graph::split(e): e ends at a new node, from which eNew runs on
graphSplit(P, e) ==
    newEdge([newNode(P) EXCEPT !.edges[e].target = P.nodeId],
            P.nodeId, P.edges[e].target)

\* PlanRepExpansion::split, lines 794-802, with eNew the new edge
linkSplit(P, e, eNew) ==
    IF P.m_eOrig[e] # Null
    THEN [P EXCEPT !.m_eOrig[eNew] = P.m_eOrig[e],
                   !.m_eCopy[P.m_eOrig[e]] = insertAfter(@, e, eNew)]
    ELSE IF P.m_eNodeSplit[e] # Null
    THEN [P EXCEPT !.m_eNodeSplit[eNew] = P.m_eNodeSplit[e],
                   !.m_path[P.m_eNodeSplit[e]] = insertAfter(@, e, eNew)]
    ELSE P

\* PlanRepExpansion::split
split(P, e) == [linkSplit(graphSplit(P, e), e, P.edgeId) EXCEPT !.ret = P.edgeId]

\* m_nodeSplits.pushBack(NodeSplit()) and the new copy u of vOrig, lines
\* 934-940 and 1014-1020
pushNodeSplit(P, u, vOrig) ==
    [P EXCEPT !.m_nodeSplits = Append(@, P.nsId),
              !.m_path = @ @@ (P.nsId :> <<>>),
              !.nsId = @ + 1,
              !.m_vOrig[u] = vOrig,
              !.m_vCopy[vOrig] = Append(@, u),
              !.m_splittable[u] = TRUE]

\* path.moveToBack(it, ns->m_path) for the edges of `moved', lines 943-962
moveToNodeSplit(P, eOrig, ns, moved) ==
    [P EXCEPT
        !.m_eCopy[eOrig] = SelectSeq(@, LAMBDA x : x \notin Range(moved)),
        !.m_path[ns] = @ \o moved,
        !.m_eOrig = [x \in DOMAIN @ |-> IF x \in Range(moved) THEN Null ELSE @[x]],
        !.m_eNodeSplit = [x \in DOMAIN @ |->
                             IF x \in Range(moved) THEN ns ELSE @[x]]]

\* PlanRepExpansion::enlargeSplit(node v, edge e), after the split: eNew
\* is the new edge, u the new node, ns the new node split
enlargeFrom(P, v, eOrig, eNew, ns) ==
    IF v = P.edges[Head(P.m_eCopy[eOrig])].source
    THEN moveToNodeSplit(P, eOrig, ns, before(P.m_eCopy[eOrig], eNew))
    ELSE moveToNodeSplit(P, eOrig, ns, fromOn(P.m_eCopy[eOrig], eNew))

enlargeSplit(P, v, e) ==
    [enlargeFrom(pushNodeSplit(split(P, e), P.nodeId, P.m_vOrig[v]),
                 v, P.m_eOrig[e], P.edgeId, P.nsId)
        EXCEPT !.ret = P.edgeId]

\* PlanRepExpansion::splitNodeSplit(edge e), lines 1022-1028: the path of
\* ns is cut in front of eNew, the rest is the path of nsNew
cutPath(P, ns, nsNew, eNew) ==
    [P EXCEPT
        !.m_path[ns] = before(P.m_path[ns], eNew),
        !.m_path[nsNew] = fromOn(P.m_path[ns], eNew),
        !.m_eNodeSplit = [x \in DOMAIN @ |->
                             IF x \in Range(fromOn(P.m_path[ns], eNew))
                             THEN nsNew ELSE @[x]]]

splitNodeSplit(P, e) ==
    [cutPath(pushNodeSplit(split(P, e), P.nodeId,
                 P.m_vOrig[P.edges[Head(P.m_path[P.m_eNodeSplit[e]])].source]),
             P.m_eNodeSplit[e], P.nsId, P.edgeId)
        EXCEPT !.ret = P.edgeId]

\* Graph::contract(e): the target of e melts into its source; e and the
\* edges that would become self-loops go
melted(P, e, y) ==
    \/ y = e
    \/ {P.edges[y].source, P.edges[y].target}
           = {P.edges[e].source, P.edges[e].target}
       /\ P.edges[e].source # P.edges[e].target

contract(P, e) ==
    [P EXCEPT
        !.nodes = @ \ {P.edges[e].target},
        !.edges = [x \in {y \in DOMAIN @ : ~melted(P, e, y)} |->
                      [source |-> IF @[x].source = P.edges[e].target
                                  THEN P.edges[e].source ELSE @[x].source,
                       target |-> IF @[x].target = P.edges[e].target
                                  THEN P.edges[e].source ELSE @[x].target]],
        !.m_vOrig = [x \in DOMAIN @ \ {P.edges[e].target} |-> @[x]],
        !.m_splittable = [x \in DOMAIN @ \ {P.edges[e].target} |-> @[x]],
        !.m_eOrig = [x \in {y \in DOMAIN @ : ~melted(P, e, y)} |-> @[x]],
        !.m_eNodeSplit = [x \in {y \in DOMAIN @ : ~melted(P, e, y)} |-> @[x]]]

\* PlanRepExpansion::contractSplit(nodeSplit ns)
contractSplit(P, ns) ==
    contract(
        [P EXCEPT
            !.bad = IF Len(P.m_path[ns]) = 1 THEN @
                    ELSE @ \cup {"ns->m_path.size() == 1"},
            !.m_vCopy[P.m_vOrig[P.edges[Head(P.m_path[ns])].target]] =
                SelectSeq(@, LAMBDA x : x # P.edges[Head(P.m_path[ns])].target),
            !.m_nodeSplits = SelectSeq(@, LAMBDA x : x # ns),
            !.m_path = [x \in DOMAIN @ \ {ns} |-> @[x]],
            !.ret = Null],
        Head(P.m_path[ns]))

\* OGDF_ASSERT(cond): its text when it does not hold
asserted(cond, text) == IF cond THEN {} ELSE {text}

\* consistencyCheck, lines 1114-1117 and 1150-1153: the edges of a path,
\* but the first, leave a node of degree 4 where the edge before ends
chained(P, path) ==
    asserted(\A j \in 2..Len(path) :
                 degreeIn(P.edges, P.edges[path[j]].source) = 4,
             "e->source()->degree() == 4")
    \cup asserted(\A j \in 2..Len(path) :
                      P.edges[path[j]].source = P.edges[path[j - 1]].target,
                  "e->source() == (*it.pred())->target()")

\* consistencyCheck, lines 1121-1135
copiesChecked(P, vOrig) ==
    asserted(Len(P.m_vCopy[vOrig]) = 1 =>
                 P.m_splittable[Head(P.m_vCopy[vOrig])] # P.m_splittableOrig[vOrig],
             "m_splittable[nodeList.front()] != m_splittableOrig[vOrig]")
    \cup asserted(Len(P.m_vCopy[vOrig]) > 1 => P.m_splittableOrig[vOrig],
                  "m_splittableOrig[vOrig]")
    \cup asserted(Len(P.m_vCopy[vOrig]) > 1 =>
                      \A v \in Range(P.m_vCopy[vOrig]) : degreeIn(P.edges, v) >= 2,
                  "v->degree() >= 2")

\* consistencyCheck, lines 1140-1156: ns.source() is where the first edge
\* of the path starts, ns.target() where the last one ends
nodeSplitChecked(P, ns) ==
    IF P.m_path[ns] = <<>> THEN {}
    ELSE asserted(P.m_vOrig[P.edges[Head(P.m_path[ns])].source] # Null,
                  "vOrig != nullptr")
         \cup asserted(P.m_vOrig[P.edges[Head(P.m_path[ns])].source]
                       = P.m_vOrig[P.edges[P.m_path[ns][Len(P.m_path[ns])]].target],
                       "vOrig == m_vOrig[w]")
         \cup asserted(P.m_splittable[P.edges[Head(P.m_path[ns])].source],
                       "m_splittable[v]")
         \cup asserted(P.m_splittable[P.edges[P.m_path[ns][Len(P.m_path[ns])]].target],
                       "m_splittable[w]")
         \cup chained(P, P.m_path[ns])

\* consistencyCheck, lines 1138-1161: nso[e] is the last node split of
\* the list whose path holds e
nso(P, e) ==
    IF \E k \in 1..Len(P.m_nodeSplits) : e \in Range(P.m_path[P.m_nodeSplits[k]])
    THEN P.m_nodeSplits[CHOOSE k \in 1..Len(P.m_nodeSplits) :
             /\ e \in Range(P.m_path[P.m_nodeSplits[k]])
             /\ \A j \in (k + 1)..Len(P.m_nodeSplits) :
                    e \notin Range(P.m_path[P.m_nodeSplits[j]])]
    ELSE Null

\* PlanRepExpansion::consistencyCheck: the assertions that fail
consistencyCheck(P) ==
    asserted(isLoopFree(P), "isLoopFree(*this)")
    \cup UNION {chained(P, P.m_eCopy[eOrig]) : eOrig \in DOMAIN P.G.edges}
    \cup UNION {copiesChecked(P, vOrig) : vOrig \in 1..P.G.n}
    \cup UNION {nodeSplitChecked(P, P.m_nodeSplits[k]) :
                   k \in 1..Len(P.m_nodeSplits)}
    \cup asserted(\A e \in DOMAIN P.edges : nso(P, e) = P.m_eNodeSplit[e],
                  "nso[e] == m_eNodeSplit[e]")

\* The list of an insertion path: m_eCopy[eOrig], or ns->m_path when eOrig
\* is null
pathOf(P, eOrig, ns) == IF eOrig # Null THEN P.m_eCopy[eOrig] ELSE P.m_path[ns]

\* m_eCopy[eOrig].clear() or ns->m_path.clear(), lines 488-492 and 746-750
clearPath(P, eOrig, ns) ==
    IF eOrig # Null THEN [P EXCEPT !.m_eCopy[eOrig] = <<>>]
    ELSE [P EXCEPT !.m_path[ns] = <<>>]

\* insertEdgePath, lines 530-536 and 542-548: eNew is the last edge of the
\* path
pushPath(P, eOrig, ns, eNew) ==
    IF eOrig # Null
    THEN [P EXCEPT !.m_eCopy[eOrig] = Append(@, eNew), !.m_eOrig[eNew] = eOrig]
    ELSE [P EXCEPT !.m_path[ns] = Append(@, eNew), !.m_eNodeSplit[eNew] = ns]

\* insertEdgePath, lines 504-539, for crossings that hold an adjacency
\* entry: the crossed edge is split at u, and the path runs on from v to u
RECURSIVE crossAll(_, _, _, _, _)
crossAll(P, eOrig, ns, v, eip) ==
    IF eip = <<>> THEN [P EXCEPT !.ret = v]
    ELSE crossAll(pushPath(newEdge(split(P, Head(eip)), v, P.nodeId),
                           eOrig, ns, P.edgeId + 1),
                  eOrig, ns, P.nodeId, Tail(eip))

\* PlanRepExpansion::insertEdgePath with eSrc and eTgt null
insertEdgePath(P, eOrig, ns, vStart, vEnd, eip) ==
    LET Q == crossAll(clearPath(P, eOrig, ns), eOrig, ns, vStart, eip)
    IN  [pushPath(newEdge(Q, Q.ret, vEnd), eOrig, ns, Q.edgeId)
            EXCEPT !.ret = Null]

\* Graph::delEdge(e)
graphDelEdge(P, e) ==
    [P EXCEPT !.edges = [x \in DOMAIN @ \ {e} |-> @[x]],
              !.m_eOrig = [x \in DOMAIN @ \ {e} |-> @[x]],
              !.m_eNodeSplit = [x \in DOMAIN @ \ {e} |-> @[x]]]

\* PlanRepExpansion::delEdge, lines 458-463; m_eCopy is indexed by
\* m_eOrig[e], which is null for an edge of a node split
delEdge(P, e) ==
    IF P.m_eOrig[e] = Null THEN [P EXCEPT !.undefined = TRUE]
    ELSE [graphDelEdge(P, e) EXCEPT
             !.bad = @ \cup asserted(Len(P.m_eCopy[P.m_eOrig[e]]) = 1,
                                     "m_eCopy[eOrig].size() == 1"),
             !.m_eCopy[P.m_eOrig[e]] = <<>>]

\* A call delEdge(e) of `caller' that takes P to Q, e an edge of the list
\* of eOrig or ns: what m_eCopy[m_eOrig[e]] held at the call, the other
\* edges of the list, and what the list holds after the call
called(P, caller, eOrig, ns, e, Q) ==
    [Q EXCEPT !.calls =
         Append(@, [caller |-> caller, e |-> e, eOrig |-> P.m_eOrig[e],
                    size |-> IF P.m_eOrig[e] = Null THEN -1
                             ELSE Len(P.m_eCopy[P.m_eOrig[e]]),
                    others |-> SelectSeq(pathOf(P, eOrig, ns), LAMBDA x : x # e),
                    left |-> pathOf(Q, eOrig, ns)])]

\* PlanRepExpansion::removeEdgePath. `path' is a reference to the list
\* that delEdge(*it) in line 709 clears, so that ++it in line 712 reads a
\* list element that was freed, and what follows is undefined; so it is
\* when the path holds an edge that Graph::contract has deleted
removeEdgePath(P, eOrig, ns) ==
    LET path == pathOf(P, eOrig, ns)
        Q == called(P, "removeEdgePath", eOrig, ns, Head(path),
                    delEdge([P EXCEPT !.calls = <<>>], Head(path)))
    IN  IF \E x \in Range(path) : x \notin DOMAIN P.edges
        THEN [P EXCEPT !.calls = <<>>, !.undefined = TRUE]
        ELSE [Q EXCEPT !.ret = <<P.edges[Head(path)].source,
                                 P.edges[path[Len(path)]].target>>,
                       !.undefined = TRUE]

(***************************************************************************)
(* PlanRepExpansion as a state machine: the object is constructed for an   *)
(* original graph, with every node of degree 4 or more splittable or with  *)
(* a list of splittable nodes; then a client calls initCC and the split    *)
(* operations on the elements the copy holds at that moment, and           *)
(* consistencyCheck() between them.                                        *)
(***************************************************************************)
OrigGraphs ==
    UNION {[n : {n}, edges : UNION {[1..k -> [source : 1..n, target : 1..n]] :
                                        k \in 0..MaxOrigEdges}] :
              n \in 0..MaxOrigNodes}

PlanRepInit ==
    /\ pqIdle
    /\ hg = Null
    /\ hgOut = Null
    /\ finder = Null
    /\ planRep \in {PlanRepExpansionOf(G) : G \in OrigGraphs}
                   \cup UNION {{PlanRepExpansionWith(G, S) : S \in SUBSET (1..G.n)} :
                                 G \in OrigGraphs}

\* The run ends with an assertion that fails or with undefined behaviour
planRepUsable == ~planRep.undefined /\ planRep.bad = {}

planRepCall(op, P) ==
    /\ planRepUsable
    /\ planRep' = [P EXCEPT !.op = op, !.failed = {},
                            !.calls = IF op = "removeEdgePath" THEN @ ELSE <<>>]
    /\ UNCHANGED <<pqVars, hgVars, finder>>

\* The client works on one connected component of the original
DoInitCC ==
    /\ planRep.m_currentCC = -1
    /\ \E i \in 0..(planRep.m_numCC - 1) :
          planRepCall("initCC", initCC(planRep, i))

DoSplit ==
    /\ planRep.nodeId <= MaxCopyNodes
    /\ \E e \in DOMAIN planRep.edges :
          planRepCall("split", split(planRep, e))

\* enlargeSplit reads the path of the original edge of e and the original
\* of v, an end of that path that may be split
DoEnlargeSplit ==
    /\ planRepUsable
    /\ planRep.nodeId <= MaxCopyNodes
    /\ \E e \in DOMAIN planRep.edges, v \in planRep.nodes :
          /\ planRep.m_eOrig[e] # Null
          /\ planRep.m_vOrig[v] # Null
          /\ planRep.m_splittable[v]
          /\ \/ v = planRep.edges[Head(planRep.m_eCopy[planRep.m_eOrig[e]])].source
             \/ v = planRep.edges[planRep.m_eCopy[planRep.m_eOrig[e]]
                       [Len(planRep.m_eCopy[planRep.m_eOrig[e]])]].target
          /\ planRepCall("enlargeSplit", enlargeSplit(planRep, v, e))

DoSplitNodeSplit ==
    /\ planRep.nodeId <= MaxCopyNodes
    /\ \E e \in DOMAIN planRep.edges :
          /\ planRep.m_eNodeSplit[e] \in Range(planRep.m_nodeSplits)
          /\ planRepCall("splitNodeSplit", splitNodeSplit(planRep, e))

DoContractSplit ==
    \E ns \in Range(planRep.m_nodeSplits) :
        /\ Len(planRep.m_path[ns]) = 1
        /\ planRepCall("contractSplit", contractSplit(planRep, ns))

\* Right after initCC the client takes an edge that has one copy out of
\* the copy
DoDelEdge ==
    /\ planRep.op = "initCC"
    /\ \E e \in DOMAIN planRep.edges :
          /\ planRep.m_eOrig[e] # Null
          /\ planRep.m_eCopy[planRep.m_eOrig[e]] = <<e>>
          /\ planRepCall("delEdge", delEdge(planRep, e))

\* and gives it a new path from a copy of the source to a copy of the
\* target across edges of the copy
DoInsertEdgePath ==
    /\ planRep.op = "delEdge"
    /\ \E eOrig \in DOMAIN planRep.G.edges :
          /\ planRep.m_eCopy[eOrig] = <<>>
          /\ \E vStart \in Range(planRep.m_vCopy[planRep.G.edges[eOrig].source]),
                vEnd \in Range(planRep.m_vCopy[planRep.G.edges[eOrig].target]),
                eip \in UNION {[1..k -> DOMAIN planRep.edges] : k \in 0..MaxCrossings} :
                /\ planRep.nodeId + Len(eip) - 1 <= MaxCopyNodes
                /\ planRepCall("insertEdgePath",
                               insertEdgePath(planRep, eOrig, Null, vStart, vEnd, eip))

\* removeEdgePath is called for an original edge or for a node split whose
\* path is not empty
DoRemoveEdgePath ==
    \/ \E eOrig \in DOMAIN planRep.G.edges :
          /\ planRep.m_eCopy[eOrig] # <<>>
          /\ planRepCall("removeEdgePath", removeEdgePath(planRep, eOrig, Null))
    \/ \E ns \in Range(planRep.m_nodeSplits) :
          /\ planRep.m_path[ns] # <<>>
          /\ planRepCall("removeEdgePath", removeEdgePath(planRep, Null, ns))

DoConsistencyCheck ==
    /\ planRepUsable
    /\ planRep.op # "consistencyCheck"
    /\ planRep' = [planRep EXCEPT !.op = "consistencyCheck",
                                  !.failed = consistencyCheck(planRep),
                                  !.calls = <<>>]
    /\ UNCHANGED <<pqVars, hgVars, finder>>

PlanRepNext ==
    \/ DoInitCC
    \/ DoSplit
    \/ DoEnlargeSplit
    \/ DoSplitNodeSplit
    \/ DoContractSplit
    \/ DoDelEdge
    \/ DoInsertEdgePath
    \/ DoRemoveEdgePath
    \/ DoConsistencyCheck

PlanRepSpec == PlanRepInit /\ [][PlanRepNext]_vars

(***************************************************************************)
(* C20: every assertion of consistencyCheck() that is PlanRepExpansion's   *)
(* own holds after initCC(i) on any graph and after any following          *)
(* sequence of split, enlargeSplit, splitNodeSplit and contractSplit.      *)
(***************************************************************************)
C20_AssertionsHold ==
    planRep.op = "consistencyCheck" => planRep.failed = {}


(***************************************************************************)
(* The run of full children of a partial pertinent root.                   *)
(***************************************************************************)
\* the children of the pertinent root that the template matching saw before
\* the last ReplaceRoot
childrenBefore == clientChildren(out.before.h, out.before.pr)

\* the places of the full children among them
fullPlaces ==
    {j \in 1..Len(childrenBefore) : Status(out.before.h, childrenBefore[j]) = "Full"}

\* the full children in sibling order, from the left endmost child on
fullRun == [j \in 1..Cardinality(fullPlaces) |->
               childrenBefore[j - 1 + CHOOSE a \in fullPlaces :
                                          \A b \in fullPlaces : a <= b]]

\* ReplacePartialRoot was run on a partial root whose full children form
\* one contiguous run of at least two
partialRunReplaced ==
    /\ replaced("Partial")
    /\ isInterval(fullPlaces)
    /\ Cardinality(fullPlaces) >= 2

\* the run s was scanned from its first to its last node: all but the last
\* have left the ring of the pertinent root, one node stands for the run,
\* and the keys returned are the frontiers of its nodes in this order
scannedFromTo(s) ==
    /\ \A j \in 1..(Len(s) - 1) : s[j] \notin treeNodes(nodes, m_root)
    /\ Len(clientChildren(nodes, out.before.pr)) = Len(childrenBefore) - (Len(s) - 1)
    /\ out.frontier = frontierOf(out.before.h, s)

\* C21: ReplacePartialRoot, on a partial root whose full children form one
\* contiguous run of at least two, finds the two ends of the run as
\* beginSequence and endSequence (both assertions hold), takes every full
\* child of the run but the last out of the ring, and returns the frontiers
\* of the children of the run in sibling order from one end to the other.
C21_PartialRunScanned ==
    partialRunReplaced =>
        /\ failedAsserts \cap {"ReplacePartialRoot:beginSequence",
                               "ReplacePartialRoot:endSequence",
                               "ReplacePartialRoot:currentNode",
                               "ReplacePartialRoot:currentInd"} = {}
        /\ scannedFromTo(fullRun) \/ scannedFromTo(Rev(fullRun))

\* a run of three full children with indicators between two of them was
\* scanned
C21_Witness ==
    /\ partialRunReplaced
    /\ Cardinality(fullPlaces) = 3
    /\ \E j \in 1..Len(out.nodeFrontier) : out.nodeFrontier[j].n # Null
    /\ scannedFromTo(fullRun) \/ scannedFromTo(Rev(fullRun))


(***************************************************************************)
(* The indicator ReplaceFullRoot allocates for ReplacePartialRoot.         *)
(***************************************************************************)
\* the sibling the end e of the run had on the side away from the run when
\* the run s was scanned from its first to its last node e
farNeighbour(s, e) ==
    LET cs == children(out.before.h, out.before.pr)
        p == indexIn(cs, e)
    IN  IF s = fullRun
        THEN (IF p < Len(cs) THEN cs[p + 1] ELSE Null)
        ELSE (IF p > 1 THEN cs[p - 1] ELSE Null)

\* in the ring cs the node i stands next to r, and on its other side next
\* to o, or at the end of the ring when o is null
standsBetween(cs, i, r, o) ==
    \E a \in 1..Len(cs) :
        /\ cs[a] = i
        /\ \/ /\ a > 1 /\ cs[a - 1] = r
              /\ IF o = Null THEN a = Len(cs) ELSE a < Len(cs) /\ cs[a + 1] = o
           \/ /\ a < Len(cs) /\ cs[a + 1] = r
              /\ IF o = Null THEN a = 1 ELSE a > 1 /\ cs[a - 1] = o

\* the indicator i was put behind the run s: it is a direct sibling of the
\* node that stands for the run and lies between it and the far neighbour
indicatorBehind(s, i) ==
    /\ scannedFromTo(s)
    /\ \E r \in Range(children(nodes, out.before.pr)) :
          /\ replacedBy(s[Len(s)], r)
          /\ standsBetween(children(nodes, out.before.pr), i, r,
                           farNeighbour(s, s[Len(s)]))

\* C22: every indicator ReplaceFullRoot allocates is linked into the tree:
\* ReplaceRoot on a partial pertinent root inserts exactly one new indicator
\* with the vertex v as a direct sibling of the node that replaces the full
\* run, between that node and its neighbour on the far side of the scan,
\* and ReplaceRoot on a full pertinent root allocates and inserts none;
\* this for every leafKeys, the empty list among them.
C22_IndicatorLinked ==
    /\ replaced("Full") => newIndicators = {}
    /\ replaced("Partial") =>
          /\ Cardinality(newIndicators) = 1
          /\ \A i \in newIndicators :
                /\ nodes[i].v = out.v
                /\ i \in treeNodes(nodes, m_root)
                /\ indicatorBehind(fullRun, i) \/ indicatorBehind(Rev(fullRun), i)


(***************************************************************************)
(* The client functions and the indicators.                                *)
(***************************************************************************)
\* the child nearest to place p of the ring cs, in the direction d, that is
\* no indicator; null when there is none
nearestClient(h, cs, p, d) ==
    LET J == {j \in 1..Len(cs) : (j - p) * d > 0 /\ ~h[cs[j]].ind}
    IN  IF J = {} THEN Null
        ELSE cs[CHOOSE j \in J : \A k \in J : (j - p) * d <= (k - p) * d]

\* the direction in which the sibling s of the child at place p lies
towards(cs, p, s) ==
    IF p > 1 /\ cs[p - 1] = s THEN -1
    ELSE IF p < Len(cs) /\ cs[p + 1] = s THEN 1
    ELSE 0

\* the nearest sibling of x that is no indicator, on the side of its direct
\* sibling s, among the children of the Q-node q
nearestSibling(h, q, x, s) ==
    IF s = Null THEN Null
    ELSE nearestClient(h, children(h, q), indexIn(children(h, q), x),
                       towards(children(h, q), indexIn(children(h, q), x), s))

\* the nearest of the two that is not the sibling the caller came from
nextOf(left, right, other) ==
    IF left # other THEN left ELSE IF right # other THEN right ELSE Null

notIndicator(h, y) == y = Null \/ Status(h, y) # "Indicator"

\* the five functions answer for the child x of the Q-node q as claimed
skipsIndicators(h, q, x) ==
    /\ clientSibLeft(h, x) = nearestSibling(h, q, x, h[x].sibLeft)
    /\ clientSibRight(h, x) = nearestSibling(h, q, x, h[x].sibRight)
    /\ \A other \in {Null, clientSibLeft(h, x), clientSibRight(h, x)} :
          clientNextSib(h, x, other) =
              nextOf(nearestSibling(h, q, x, h[x].sibLeft),
                     nearestSibling(h, q, x, h[x].sibRight), other)
    /\ clientLeftEndmost(h, q) = nearestClient(h, children(h, q), 0, 1)
    /\ clientRightEndmost(h, q) =
           nearestClient(h, children(h, q), Len(children(h, q)) + 1, -1)

\* none of the five functions hands back an indicator for the child x of q
neverIndicator(h, q, x) ==
    /\ notIndicator(h, clientSibLeft(h, x))
    /\ notIndicator(h, clientSibRight(h, x))
    /\ \A other \in {Null, clientSibLeft(h, x), clientSibRight(h, x)} :
          notIndicator(h, clientNextSib(h, x, other))
    /\ Type(h, q) = "QNode" =>
          /\ notIndicator(h, clientLeftEndmost(h, q))
          /\ notIndicator(h, clientRightEndmost(h, q))

\* the tree is one the reduction and the replacement work on
treeInUse == phase \in {"stable", "reduced", "failed"} /\ m_root # Null

\* C23: clientSibLeft, clientSibRight, clientNextSib, clientLeftEndmost and
\* clientRightEndmost never return an indicator: each returns the nearest
\* sibling in the requested direction that is no indicator (the nearest such
\* child from that end), or null when there is none, however many
\* indicators stand in a row.
C23_ClientFunctionsSkip ==
    treeInUse =>
        \A q \in interiorNodes(nodes, m_root) :
            \A x \in Range(children(nodes, q)) :
                /\ neverIndicator(nodes, q, x)
                /\ Type(nodes, q) = "QNode" => skipsIndicators(nodes, q, x)

\* a Q-node with an indicator as endmost child and with two indicators in a
\* row between two leaves
C23_Witness ==
    /\ treeInUse
    /\ \E q \in qNodes(nodes, m_root) :
          /\ nodes[nodes[q].rightEndmost].ind \/ nodes[nodes[q].leftEndmost].ind
          /\ \E x \in Range(children(nodes, q)) :
                /\ ~nodes[x].ind
                /\ nodes[x].sibLeft # Null /\ nodes[nodes[x].sibLeft].ind
                /\ getNextSib(nodes, nodes[x].sibLeft, x) # Null
                /\ nodes[getNextSib(nodes, nodes[x].sibLeft, x)].ind
                /\ clientSibLeft(nodes, x) # Null
          /\ skipsIndicators(nodes, q, nodes[q].leftEndmost)


(***************************************************************************)
(* The pertinent root that is kept in the tree.                            *)
(***************************************************************************)
\* the sweep has run on a tree whose pertinent root ReplaceRoot had kept
keptRootSwept == out.op = "emptyAllPertinentNodes" /\ out.entry.pr # Null

\* the nodes of the pertinent-node list that were Full when the sweep
\* began, the pertinent root aside
otherFullNodes ==
    {x \in Range(out.entry.pn) \ {out.entry.pr} : Status(out.entry.h, x) = "Full"}

\* C24: emptyAllPertinentNodes never frees a pertinent root that ReplaceRoot
\* kept in the tree: when the pertinent-root pointer is not null at entry,
\* the node is allocated and in the tree afterwards and is not marked
\* ToBeDeleted, while every other Full node of the pertinent-node list is
\* freed; afterwards the pertinent-root pointer is null and the
\* pertinent-node list is empty.
C24_KeptRootNotFreed ==
    keptRootSwept =>
        /\ out.entry.pr \notin freed
        /\ out.entry.pr \in treeNodes(nodes, m_root)
        /\ Status(nodes, out.entry.pr) # "ToBeDeleted"
        /\ otherFullNodes \subseteq freed
        /\ m_pertinentRoot = Null
        /\ m_pertinentNodes = <<>>

\* a full P-node or Q-node was turned into the P-node over the new leaves
\* and kept, and its full children were freed
C24_Witness ==
    /\ keptRootSwept
    /\ Len(out.keys) >= 2
    /\ Status(out.entry.h, out.entry.pr) = "Full"
    /\ otherFullNodes # {}
    /\ otherFullNodes \subseteq freed
    /\ out.entry.pr \in treeNodes(nodes, m_root)


(***************************************************************************)
(* ReplaceRoot without new keys.                                           *)
(***************************************************************************)
\* the last ReplaceRoot was given no key, with the pertinent root at the
\* root of the tree or below it
emptyAtRoot == out.keys = <<>> /\ out.before.pr = out.before.root

emptyBelowRoot == out.keys = <<>> /\ out.before.pr # out.before.root

\* the nodes of the tree ReplaceRoot was called on
nodesBefore == treeNodes(out.before.h, out.before.root)

\* the sweep has freed every node of that tree and has left no root
tornDown == m_root = Null /\ nodesBefore \subseteq freed

\* C25: ReplaceRoot with an empty leafKeys and the pertinent root at the
\* root of the tree returns the frontier of the whole tree, adds no node and
\* no indicator and sets the pertinent-root pointer to null, so that the
\* following emptyAllPertinentNodes tears the whole tree down; ReplaceRoot
\* with an empty leafKeys and the pertinent root below the root of the tree
\* adds no leaf to the tree.
C25_EmptyLeafKeys ==
    /\ (out.op = "ReplaceRoot" /\ emptyAtRoot) =>
          /\ out.frontier = frontierOf(out.before.h, <<out.before.root>>)
          /\ Range(out.frontier) = leafKeysOf(out.before.h, out.before.root)
          /\ DOMAIN nodes = DOMAIN out.before.h
          /\ m_pertinentRoot = Null
    /\ (out.op = "emptyAllPertinentNodes" /\ emptyAtRoot) => tornDown
    /\ (out.op = "ReplaceRoot" /\ emptyBelowRoot) =>
          treeLeaves(nodes, m_root) \subseteq treeLeaves(out.before.h, out.before.root)


(***************************************************************************)
(* delHypernode and the hyperedges of the hypernode.                       *)
(***************************************************************************)
\* how many of the entries of hyperedge e in H stand for hypernode v
entriesOf(H, e, v) ==
    Cardinality({i \in 1..Len(H.edge[e].adj) : H.adj[H.edge[e].adj[i]].element = v})

\* the hyperedges of H that lose v and are left with fewer than two entries
leftTooSmall(H, v) ==
    {e \in Range(H.m_hyperedges) :
        /\ entriesOf(H, e, v) > 0
        /\ H.edge[e].cardinality - entriesOf(H, e, v) < 2}

\* every entry of every live element of H is alive and stands for a live
\* element
entriesAlive(H) ==
    /\ \A e \in Range(H.m_hyperedges) : \A a \in Range(H.edge[e].adj) :
          a \in DOMAIN H.adj /\ H.adj[a].element \in Range(H.m_hypernodes)
    /\ \A w \in Range(H.m_hypernodes) : \A a \in Range(H.node[w].adj) :
          a \in DOMAIN H.adj /\ H.adj[a].element \in Range(H.m_hyperedges)

\* delHypernode(v) has led from the hypergraph H to the hypergraph K
hypernodeDeleted(H, v, K) ==
    /\ ~K.undefined
    /\ K.bad = {}
    /\ v \notin Range(K.m_hypernodes)
    /\ v \notin DOMAIN K.node
    /\ Range(K.m_hypernodes) = Range(H.m_hypernodes) \ {v}
    /\ Range(K.m_hyperedges) = Range(H.m_hyperedges) \ leftTooSmall(H, v)
    /\ DOMAIN K.edge = Range(K.m_hyperedges)
    /\ entriesAlive(K)
    /\ \A a \in DOMAIN K.adj :
          \/ \E e \in Range(K.m_hyperedges) : a \in Range(K.edge[e].adj)
          \/ \E w \in Range(K.m_hypernodes) : a \in Range(K.node[w].adj)

\* C26: delHypernode(v) takes v out of every hyperedge that holds it and
\* deletes exactly the hyperedges whose cardinality thereby falls below 2;
\* afterwards v is not in the hypergraph, no entry of a remaining hyperedge
\* or hypernode stands for v or for a deleted hyperedge, and each entry is
\* removed exactly once; this for every list newHyperedge accepts.
C26_DelHypernodeCascade ==
    [][\A v \in Range(hg.m_hypernodes) :
          (/\ hgUsable
           /\ hgOut'.op = "delHypernode"
           /\ hg' = delHypernode(hgFresh, v)) => hypernodeDeleted(hg, v, hg')]_vars


(***************************************************************************)
(* Indices and id counters.                                                *)
(***************************************************************************)
\* every live element of H has an index below the id counter of its kind
indicesBelowCounters(H) ==
    /\ \A v \in Range(H.m_hypernodes) : H.node[v].index < H.m_hypernodeIdCount
    /\ \A e \in Range(H.m_hyperedges) : H.edge[e].index < H.m_hyperedgeIdCount

\* no id counter of K is below that of H
countersKept(H, K) ==
    /\ K.m_hypernodeIdCount >= H.m_hypernodeIdCount
    /\ K.m_hyperedgeIdCount >= H.m_hyperedgeIdCount

\* the element an operation without explicit index has added to H has an
\* index no live element of H held
freshIndex(op, H, K) ==
    /\ op \in {"newHypernode()", "newHypernode(pType)"} =>
          \A v \in Range(H.m_hypernodes) : H.node[v].index # K.node[K.ret].index
    /\ op = "newHyperedge(pHypernodes)" =>
          \A e \in Range(H.m_hyperedges) : H.edge[e].index # K.edge[K.ret].index

\* C27: in every reachable state of a Hypergraph each live hypernode has an
\* index below the hypernode id counter and each live hyperedge an index
\* below the hyperedge id counter; the counters never decrease except in
\* clear(), so that newHypernode() and newHyperedge(list) never assign an
\* index a live element holds.  (A state reached through a read of a deleted
\* element is not a state of the Hypergraph any more and is left aside.)
C27_IndicesBelowCounters ==
    [][~hg'.undefined =>
          /\ indicesBelowCounters(hg')
          /\ hgOut'.op # "clear" => countersKept(hg, hg')
          /\ freshIndex(hgOut'.op, hg, hg')]_vars

\* newHypernode() has given the index 1 to a hypernode while the hypernode
\* of index 0 was deleted before, or is still alive
C27_Witness ==
    /\ hgOut.op = "newHypernode()"
    /\ ~hg.undefined
    /\ hg.node[hg.ret].index = 1
    /\ hg.m_hypernodeIdCount = 2
    /\ \A v \in Range(hg.m_hypernodes) \ {hg.ret} : hg.node[v].index = 0


(***************************************************************************)
(* What the observers see.                                                 *)
(***************************************************************************)
\* the notifications the last operation has sent, in order
notified(ev) == {i \in 1..Len(hg.log) : hg.log[i].ev = ev}

ObserverCallbacks ==
    {"hypernodeAdded", "hyperedgeAdded", "hypernodeDeleted", "hyperedgeDeleted"}

\* C28: whenever hypernodeAdded, hyperedgeAdded, hypernodeDeleted or
\* hyperedgeDeleted of an observer is called, the hypergraph satisfies the
\* conditions of consistency() at that moment; in particular a hyperedge
\* reported by hyperedgeAdded holds its hypernodes already, and a hyperedge
\* that delHypernode deletes is reported before the hypernode is.
C28_ObserversSeeConsistency ==
    /\ \A ev \in ObserverCallbacks : \A i \in notified(ev) : hg.log[i].consistent
    /\ hgOut.op = "delHypernode" =>
          \A i \in notified("hyperedgeDeleted") :
              \A j \in notified("hypernodeDeleted") : i < j


(***************************************************************************)
(* The calls of delEdge in removeEdgePath.                                 *)
(***************************************************************************)
\* the call had what delEdge asserts: e has an original edge whose list of
\* copies holds exactly one edge
preconditionHeld(call) == call.eOrig # Null /\ call.size = 1

\* after the call, the other edges of the path of e are recorded in it as
\* before
othersKept(call) == call.left = call.others

\* C29: whenever removeEdgePath, removeSelfLoop or resolvePseudoCrossing
\* calls delEdge(e), the precondition delEdge asserts holds (e has an
\* original edge whose copy path holds exactly one edge), and after the
\* call every other edge of the path of e is still recorded in that path,
\* in the order it had.
C29_DelEdgeCalls ==
    \A k \in 1..Len(planRep.calls) :
        preconditionHeld(planRep.calls[k]) /\ othersKept(planRep.calls[k])

=============================================================================
